---- MODULE Spec2Model ----
(***************************************************************************)
(* Capture-and-detection orchestration of the AI engine:                   *)
(*   VideoProcessor     (src/ai-engine/app/core/video_processor.py)        *)
(*   DetectionPipeline  (src/ai-engine/app/core/detection_pipeline.py)     *)
(*   AnomalyDetector    (src/ai-engine/app/core/anomaly_detector.py)       *)
(*                                                                         *)
(* The program is an asyncio program: one thread, tasks that run from one  *)
(* suspension point (an await that really suspends: asyncio.sleep, await   *)
(* of an unfinished task, gather) to the next.  One action of the model is *)
(* one such run of one task.  task.cancel() marks the task; the            *)
(* CancelledError is raised at the await where the task is suspended when  *)
(* the task next runs; a task cancelled before its first run never         *)
(* executes its body.  CancelledError is not an Exception (Python >= 3.8), *)
(* so "except Exception" does not catch it.                                *)
(*                                                                         *)
(* The event loop runs ready tasks first in, first out (rq): a task just   *)
(* created, a task whose awaited task ended, a sleeping task that was      *)
(* cancelled.  A sleeping task becomes ready when its timer fires, which   *)
(* may be at any time: it may run before a queued task exactly when it has *)
(* been asleep since before that task was queued (pre).                    *)
(*                                                                         *)
(* Objects that the code shares by reference are modelled by identity:     *)
(* configuration dicts (cfgs), cv2.VideoCapture handles (caps), tasks      *)
(* (ctask, dtask).  A slot whose object nothing refers to any more is      *)
(* reclaimed (Collect), as the interpreter reclaims the object.            *)
(***************************************************************************)
EXTENDS Integers, Sequences, FiniteSets, TLC

\* ---------------------------------------------------------------- bounds
Cameras == {1, 2}       \* source ids the caller uses
OneSource == {1}        \* the id of the runs with one source
MaxCfgs == 2            \* configuration dicts alive at once
MaxCaps == 3            \* VideoCapture objects alive at once
MaxCapTasks == 3        \* capture-loop tasks alive at once
MaxDetTasks == 2        \* detection tasks alive at once
BufferSize == 2         \* settings.VIDEO_BUFFER_SIZE of the run
MaxCallbacks == 2       \* cap on the length of a callback list
MaxFrames == 3          \* Spec: cap on a configuration's frame_count
MaxErrors == 2          \* Spec: cap on a configuration's error_count
MaxOps == 4             \* Spec: cap on the number of calls of the caller
ReconnectFrames == 1    \* SpecReconnect: cap on a configuration's frame_count
ReconnectErrors == 13   \* SpecReconnect: cap on a configuration's error_count
ReconnectOps == 3       \* SpecReconnect: cap on the number of calls
RemoveFrames == 2       \* SpecRemove: cap on a configuration's frame_count
RemoveOps == 6          \* SpecRemove: cap on the number of calls
MaxObjects == 3         \* cap on the length of an object-detection list
MaxFaces == 1           \* cap on the length of a face-detection list
AnomalyBufferSize == 5  \* settings.VIDEO_BUFFER_SIZE of the scorer's frame deque
DetectFrames == 1       \* SpecDetect: cap on a configuration's frame_count
DetectOps == 3          \* SpecDetect: cap on the number of calls
IsolationFrames == 1    \* SpecIsolation: cap on frame_count
IsolationErrors == 11   \* SpecIsolation: cap on error_count
IsolationOps == 4       \* SpecIsolation: cap on the number of calls

\* ------------------------------------------------------ program constants
ErrorThreshold == 10    \* "if camera_config['error_count'] > 10"

\* Scores, confidences, fractions and the threshold are counted in
\* hundredths: 50 is 0.5.
DefaultThreshold == 50  \* ANOMALY_THRESHOLD: float = Field(default=0.5, ...)
MotionThreshold == 1    \* "has_motion": motion_percentage > 0.01
HaarConfidence == 100   \* "confidence": 1.0 of every face detection
TemporalWindow == 5     \* "len(self.frame_buffer) < 5": no temporal score
MotionWindow == 2       \* "len(self.frame_buffer) < 2": no motion score
HighRiskObjects == 2    \* "len(object_detections) > 2": high risk

\* ten-thousandths: 3000 is 0.3.
ExcessiveMotion == 3000 \* "motion_percentage > 0.3": too much motion
VeryLowMotion == 10     \* "motion_percentage < 0.001": too little motion
LowMotionScore == 5000  \* "return 0.5"
FullScore == 10000      \* "min(motion_percentage * 2, 1.0)"

MaxFeedback == 2        \* false-positive reports in a run

max_reconnect_attempts == 10  \* "self.max_reconnect_attempts = 10"
MaxLoops == 2           \* tasks of a kind that the client has at a time
MaxSockets == 2         \* connections that the client has at a time
SocketAttempts == 2     \* reconnect_attempts in a run of the client
AttemptsLoops == 1      \* tasks of a kind, where the attempts are counted
AttemptsSockets == 1    \* connections, where the attempts are counted
MaxAttempts == 11       \* reconnect_attempts, where the attempts are counted

Cfgs == 1..MaxCfgs
Caps == 1..MaxCaps
CapTasks == 1..MaxCapTasks
DetTasks == 1..MaxDetTasks
Loops == 1..MaxLoops
Sockets == 1..MaxSockets

VARIABLES
    cameras,          \* VideoProcessor.cameras: id -> configuration dict (0: no entry)
    cfgs,             \* the configuration dicts: enabled, frame_count, error_count
    active_streams,   \* VideoProcessor.active_streams: id -> VideoCapture (0: no entry)
    caps,             \* the VideoCapture objects: "free" | "open" | "released"
    frame_buffers,    \* VideoProcessor.frame_buffers: id -> deque(maxlen=buffer_size)
    frame_callbacks,  \* VideoProcessor.frame_callbacks: id -> list of callbacks
    vp_tasks,         \* VideoProcessor.processing_tasks: id -> capture task (0: no entry)
    ctask,            \* the capture-loop tasks (_process_camera_stream)
    is_running,       \* DetectionPipeline.is_running
    dp_tasks,         \* DetectionPipeline.processing_tasks: id -> detection task
    dtask,            \* the detection tasks (_process_camera_frames), each with
                      \* the record of its current or last cycle
    rq,               \* the event loop's ready queue, oldest first
    awq,              \* who awaits a task or a gather, in the order they began
    call,             \* the caller's call in progress
    stopper,          \* the tasks stop_all_cameras creates, one per source
    nOps,             \* calls made so far
    last,             \* the last call that returned, and what it returned
    lim,              \* the caps of the run: calls, frame_count, error_count
    threshold,        \* settings.ANOMALY_THRESHOLD
    ad_buffer,        \* AnomalyDetector.frame_buffer: the camera_id of each frame, oldest first
    ad_models,        \* the scorer's models that are loaded (not None)
    pushed,           \* history: frames appended to the source's current deque
    cb_log,           \* history: callbacks invoked for the source's last frame
    cb_seen,          \* history: the newest frame_number in the buffer at each of them
    scored,           \* history: the last call of detect_anomaly and its result
    false_positive_count, \* AnomalyDetector.false_positive_count
    motion,           \* history: the last call of _detect_motion_anomaly and its result
    fused,            \* history: the last fusion, its inputs and its result
    ws                \* the WebSocketClient, its connections and its tasks

pipeline_vars ==
    <<cameras, cfgs, active_streams, caps, frame_buffers, frame_callbacks,
      vp_tasks, ctask, is_running, dp_tasks, dtask, rq, awq, call, stopper, nOps,
      last, lim, threshold, ad_buffer, ad_models,
      pushed, cb_log, cb_seen, scored, false_positive_count, motion, fused>>

vars == <<pipeline_vars, ws>>

\* ------------------------------------------------------------ the objects
NewCfg(en) == [enabled |-> en, frame_count |-> 0, error_count |-> 0]
NoCfg == [enabled |-> FALSE, frame_count |-> 0, error_count |-> 0]
NoTask == [pc |-> "free", cam |-> 0, cap |-> 0, cfg |-> 0, cancel |-> FALSE, aw |-> 0]
NoResult == [has_detection |-> FALSE, overall_confidence |-> 0, detection_types |-> <<>>,
             risk_level |-> "low", error |-> FALSE, objects |-> 0, faces |-> 0]
NoStats == [total_detections |-> 0, total_anomalies |-> 0, total_objects |-> 0]
NoCycle == [raise |-> "none", prev |-> "none", frame |-> 0, result |-> NoResult,
            writes |-> 0, redis |-> "none", sends |-> 0, kafka |-> "none",
            counted |-> FALSE, stats |-> NoStats]
NoDet == [pc |-> "free", cam |-> 0, cancel |-> FALSE, cycle |-> NoCycle]
NoDict == [has |-> FALSE, q |-> <<>>]
EmptyDict == [has |-> TRUE, q |-> <<>>]
Idle == [op |-> "idle", cam |-> 0, pc |-> "", aw |-> 0, set |-> {}]
NoStopper == [pc |-> "none", aw |-> 0]

\* Who runs: a capture task, a detection task, a task of stop_all_cameras or
\* of start_all_cameras, the caller.
Id(k, i) == [k |-> k, i |-> i]
CallId == Id("call", 0)

Sleepers ==
    {Id("cap", i) : i \in {j \in CapTasks : ctask[j].pc \in {"sleep", "errsleep", "cooldown"}}}
    \cup {Id("det", i) : i \in {j \in DetTasks : dtask[j].pc \in {"poll", "interval", "setex"}}}

\* The queue without id, which runs now.
Dequeue(q, id) ==
    LET q1 == SelectSeq(q, LAMBDA e : e.id # id)
    IN  [j \in 1..Len(q1) |-> [q1[j] EXCEPT !.pre = @ \ {id}]]

\* id may run now: it is the oldest ready task, or its timer may have fired
\* before the oldest ready task was queued.
MayRun(id) ==
    IF rq = <<>> THEN id \in Sleepers
    ELSE rq[1].id = id \/ id \in rq[1].pre

\* The program's state as one record, so that a method is an operator from
\* state to state and a method that calls another composes them.  p0: the
\* tasks asleep while id runs.
StateOf(id) ==
    [cameras |-> cameras, cfgs |-> cfgs, active_streams |-> active_streams,
     caps |-> caps, frame_buffers |-> frame_buffers,
     frame_callbacks |-> frame_callbacks, vp_tasks |-> vp_tasks, ctask |-> ctask,
     is_running |-> is_running, dp_tasks |-> dp_tasks, dtask |-> dtask,
     threshold |-> threshold, ad_buffer |-> ad_buffer, ad_models |-> ad_models,
     pushed |-> pushed, cb_log |-> cb_log, cb_seen |-> cb_seen, scored |-> scored, fused |-> fused,
     false_positive_count |-> false_positive_count, motion |-> motion,
     rq |-> Dequeue(rq, id), p0 |-> Sleepers \ {id}]

State == StateOf(CallId)

\* loop.call_soon of a task's next run
Ready(s, id) ==
    IF \E j \in 1..Len(s.rq) : s.rq[j].id = id THEN s
    ELSE [s EXCEPT !.rq = Append(@, [id |-> id, pre |-> s.p0])]

CapLive(s, i) == s.ctask[i].pc \notin {"free", "done"}
DetLive(s, i) == s.dtask[i].pc \notin {"free", "done"}
CapDone(s, i) == s.ctask[i].pc = "done"
DetDone(s, i) == s.dtask[i].pc = "done"

Min(S) == CHOOSE x \in S : \A y \in S : x <= y

FreeCaps(s) == {h \in Caps : s.caps[h] = "free"}
FreeCapTasks(s) == {i \in CapTasks : s.ctask[i].pc = "free"}
FreeDetTasks(s) == {i \in DetTasks : s.dtask[i].pc = "free"}
FreeCfgs(s) ==
    {k \in Cfgs : /\ \A c \in Cameras : s.cameras[c] # k
                  /\ \A i \in CapTasks : s.ctask[i].cfg # k}

\* ------------------------------------------------------------- asyncio
\* Task.cancel(): nothing on a finished task; otherwise the task is marked and
\* gets the CancelledError when it next runs.
CancelCap(s, t) ==
    IF ~CapLive(s, t) THEN s
    ELSE IF s.ctask[t].pc = "await" THEN [s EXCEPT !.ctask[t].cancel = TRUE]
    ELSE Ready([s EXCEPT !.ctask[t].cancel = TRUE], Id("cap", t))

CancelDet(s, t) ==
    IF DetLive(s, t)
    THEN Ready([s EXCEPT !.dtask[t].cancel = TRUE], Id("det", t))
    ELSE s

\* A task that ended drops its locals.
EndCap(s, i) ==
    [s EXCEPT !.ctask[i] = [NoTask EXCEPT !.pc = "done", !.cam = s.ctask[i].cam]]

\* ------------------------------------------------------- VideoProcessor
\* add_camera: a new configuration dict, a new deque and a new callback list
\* are stored under camera_id, whatever was stored there before.
add_camera(s, c, en) ==
    LET k == Min(FreeCfgs(s))
    IN  [s EXCEPT !.cameras[c] = k,
                  !.cfgs[k] = NewCfg(en),
                  !.frame_buffers[c] = EmptyDict,
                  !.frame_callbacks[c] = EmptyDict,
                  !.pushed[c] = <<>>]

\* add_frame_callback: creates the list when the id has none.
add_frame_callback(s, c, cb) ==
    LET cur == IF s.frame_callbacks[c].has THEN s.frame_callbacks[c].q ELSE <<>>
    IN  [s EXCEPT !.frame_callbacks[c] = [has |-> TRUE, q |-> Append(cur, cb)]]

\* start_camera_stream; opened: whether cap.isOpened().  The result is
\* [s, ret].
CanOpen(s) == FreeCaps(s) # {} /\ FreeCapTasks(s) # {}

\* a start that does not look at the "enabled" flag
start_camera_stream_any(s, c, opened) ==
    IF s.cameras[c] = 0 \/ ~opened THEN [s |-> s, ret |-> FALSE]
    ELSE LET h == Min(FreeCaps(s))
             t == Min(FreeCapTasks(s))
         IN  [s |-> Ready([s EXCEPT !.caps[h] = "open",
                                    !.active_streams[c] = h,
                                    !.ctask[t] = [NoTask EXCEPT !.pc = "new", !.cam = c],
                                    !.vp_tasks[c] = t], Id("cap", t)),
              ret |-> TRUE]

start_camera_stream(s, c, opened) ==
    IF s.cameras[c] = 0 THEN [s |-> s, ret |-> FALSE]
    ELSE IF ~s.cfgs[s.cameras[c]].enabled THEN [s |-> s, ret |-> FALSE]
    ELSE IF ~opened THEN [s |-> s, ret |-> FALSE]
    ELSE LET h == Min(FreeCaps(s))
             t == Min(FreeCapTasks(s))
         IN  [s |-> Ready([s EXCEPT !.caps[h] = "open",
                                    !.active_streams[c] = h,
                                    !.ctask[t] = [NoTask EXCEPT !.pc = "new", !.cam = c],
                                    !.vp_tasks[c] = t], Id("cap", t)),
              ret |-> TRUE]

\* a stop_camera_stream that releases the VideoCapture of every source
StopReleaseAll(s, c) ==
    [s EXCEPT !.caps = [h \in Caps |->
                           IF \E b \in Cameras : s.active_streams[b] = h
                           THEN "released" ELSE @[h]],
              !.active_streams = [b \in Cameras |-> 0]]

\* stop_camera_stream, lines 147-154: release the VideoCapture on record.
StopRelease(s, c) ==
    IF s.active_streams[c] # 0
    THEN [s EXCEPT !.caps[s.active_streams[c]] = "released",
                   !.active_streams[c] = 0]
    ELSE s

\* stop_camera_stream after "await task" (lines 143-154): the entry is deleted;
\* when it is gone already the KeyError ends the call with False, before the
\* release.
StopEnd(s, c) ==
    IF s.vp_tasks[c] = 0
    THEN [s |-> s, ret |-> FALSE]
    ELSE [s |-> StopRelease([s EXCEPT !.vp_tasks[c] = 0], c), ret |-> TRUE]

\* a stop_camera_stream that answers False for a source without a task
StopBeginStrict(s, c) ==
    IF s.vp_tasks[c] = 0
    THEN [s |-> s, ret |-> FALSE, aw |-> 0]
    ELSE LET t == s.vp_tasks[c]
             s1 == CancelCap(s, t)
         IN  IF CapLive(s1, t)
             THEN [s |-> s1, ret |-> TRUE, aw |-> t]
             ELSE [s |-> StopEnd(s1, c).s, ret |-> StopEnd(s1, c).ret, aw |-> 0]

\* stop_camera_stream up to its first suspension (lines 136-142).  The result
\* is [s, ret, aw]: aw is the task the call now awaits, 0 when the call has
\* returned.  Awaiting a finished task does not suspend.
StopBegin(s, c) ==
    IF s.vp_tasks[c] = 0
    THEN [s |-> StopRelease(s, c), ret |-> TRUE, aw |-> 0]
    ELSE LET t == s.vp_tasks[c]
             s1 == CancelCap(s, t)
         IN  IF CapLive(s1, t)
             THEN [s |-> s1, ret |-> TRUE, aw |-> t]
             ELSE [s |-> StopEnd(s1, c).s, ret |-> StopEnd(s1, c).ret, aw |-> 0]

\* remove_camera, lines 79-90, after its stop_camera_stream returned.
RemoveEnd(s, c) ==
    [s EXCEPT !.cameras[c] = 0,
              !.frame_buffers[c] = NoDict,
              !.frame_callbacks[c] = NoDict,
              !.pushed[c] = <<>>]

\* ---------------------------------------------------- DetectionPipeline
\* a callback that does not look at is_running
NeedsDetTaskAnyTime(s, c) == s.dp_tasks[c] = 0

\* _process_frame_callback: one detection task per id that has no entry.
NeedsDetTask(s, c) == s.is_running /\ s.dp_tasks[c] = 0

process_frame_callback(s, c) ==
    IF NeedsDetTask(s, c)
    THEN LET t == Min(FreeDetTasks(s))
         IN  Ready([s EXCEPT !.dtask[t] = [NoDet EXCEPT !.pc = "new", !.cam = c],
                             !.dp_tasks[c] = t], Id("det", t))
    ELSE s

\* One callback of the list: the pipeline's, or a caller's callback that
\* raises on every invocation (the exception is caught and logged, line 247).
InvokeCallback(s, c, cb) ==
    LET q == s.frame_buffers[c].q
        s1 == [s EXCEPT !.cb_log[c] = Append(@, cb),
                        !.cb_seen[c] = Append(@, IF q = <<>> THEN 0 ELSE q[Len(q)])]
    IN  IF cb = "pipeline" THEN process_frame_callback(s1, c) ELSE s1

\* _call_frame_callbacks: every callback of the list, in list order, from
\* position n on.
RECURSIVE CallFrom(_, _, _)
CallFrom(s, c, n) ==
    IF n > Len(s.frame_callbacks[c].q) THEN s
    ELSE CallFrom(InvokeCallback(s, c, s.frame_callbacks[c].q[n]), c, n + 1)

\* a _call_frame_callbacks whose try encloses the for loop: the first
\* exception ends the pass
RECURSIVE CallUntilRaise(_, _, _)
CallUntilRaise(s, c, n) ==
    IF n > Len(s.frame_callbacks[c].q) THEN s
    ELSE IF s.frame_callbacks[c].q[n] = "raiser"
    THEN InvokeCallback(s, c, "raiser")
    ELSE CallUntilRaise(InvokeCallback(s, c, s.frame_callbacks[c].q[n]), c, n + 1)

call_frame_callbacks_one_try(s, c) ==
    IF s.frame_callbacks[c].has THEN CallUntilRaise(s, c, 1) ELSE s

call_frame_callbacks(s, c) ==
    IF s.frame_callbacks[c].has THEN CallFrom(s, c, 1) ELSE s

\* ---------------------------------------------------------- capture loop
\* a deque without maxlen
DequeAppendUnbounded(q, x) == Append(q, x)

\* deque(maxlen=buffer_size).append
DequeAppend(q, x) ==
    IF Len(q) >= BufferSize THEN Append(Tail(q), x) ELSE Append(q, x)

\* _reconnect_camera up to its first suspension: stop_camera_stream cancels the
\* task on record, which is the calling task itself unless another start
\* replaced it, and awaits it; then the cool-down sleep.
ReconnectBegin(s, i) ==
    LET c == s.ctask[i].cam
        r == StopBegin(s, c)
    IN  IF r.aw = 0 THEN [r.s EXCEPT !.ctask[i].pc = "cooldown"]
        ELSE IF r.aw = i THEN [r.s EXCEPT !.ctask[i].pc = "selfawait"]
        ELSE [r.s EXCEPT !.ctask[i].pc = "await", !.ctask[i].aw = r.aw]

\* "if camera_config['error_count'] >= 10"
ReadFailedAtThreshold(s, i) ==
    LET k == s.ctask[i].cfg
        n == s.cfgs[k].error_count + 1
        s1 == [s EXCEPT !.cfgs[k].error_count = n]
    IN  IF n >= ErrorThreshold
        THEN ReconnectBegin(s1, i)
        ELSE [s1 EXCEPT !.ctask[i].pc = "errsleep"]

\* Lines 174-184: a failed read.
ReadFailed(s, i) ==
    LET k == s.ctask[i].cfg
        n == s.cfgs[k].error_count + 1
        s1 == [s EXCEPT !.cfgs[k].error_count = n]
    IN  IF n > ErrorThreshold
        THEN ReconnectBegin(s1, i)
        ELSE [s1 EXCEPT !.ctask[i].pc = "errsleep"]

\* a loop that calls the callbacks before it appends the frame
ReadOkCallbacksFirst(s, i) ==
    LET c == s.ctask[i].cam
        k == s.ctask[i].cfg
        n == s.cfgs[k].frame_count + 1
        s1 == [s EXCEPT !.cfgs[k].error_count = 0, !.cfgs[k].frame_count = n]
    IN  IF ~s1.frame_buffers[c].has THEN EndCap(s1, i)
        ELSE LET s2 == call_frame_callbacks(
                           [s1 EXCEPT !.cb_log[c] = <<>>, !.cb_seen[c] = <<>>,
                                      !.ctask[i].pc = "sleep"], c)
             IN  [s2 EXCEPT !.frame_buffers[c].q = DequeAppend(@, n),
                            !.pushed[c] = Append(@, n)]

\* Lines 186-208: a frame was read.  A missing deque is a KeyError, which the
\* handler of line 215 logs, and the task ends.
ReadOk(s, i) ==
    LET c == s.ctask[i].cam
        k == s.ctask[i].cfg
        n == s.cfgs[k].frame_count + 1
        s1 == [s EXCEPT !.cfgs[k].error_count = 0, !.cfgs[k].frame_count = n]
    IN  IF ~s1.frame_buffers[c].has THEN EndCap(s1, i)
        ELSE call_frame_callbacks(
                 [s1 EXCEPT !.frame_buffers[c].q = DequeAppend(@, n),
                            !.pushed[c] = Append(@, n),
                            !.cb_log[c] = <<>>,
                            !.cb_seen[c] = <<>>,
                            !.ctask[i].pc = "sleep"], c)

\* One pass of "while True" up to the next suspension; ok: cap.read()'s ret.
Iterate(s, i, ok) == IF ok THEN ReadOk(s, i) ELSE ReadFailed(s, i)

\* What the environment may answer, and what the bounds leave room for.
CanRead(s, i, cap, k, ok) ==
    IF ok
    THEN /\ s.caps[cap] = "open"
         /\ s.cfgs[k].frame_count < lim.frames
         /\ NeedsDetTask(s, s.ctask[i].cam) => FreeDetTasks(s) # {}
    ELSE s.cfgs[k].error_count < lim.errors

\* One run of capture task i, from where it is suspended to its next
\* suspension or its end.  ok: the answer of the one external call the run
\* makes (cap.read(), or cap.isOpened() of the reopen).
CapEnabled(s, i, ok) ==
    LET t == s.ctask[i]
    IN  CASE t.pc = "new" ->
               \/ t.cancel /\ ok
               \/ ~t.cancel /\ (s.active_streams[t.cam] = 0 \/ s.cameras[t.cam] = 0) /\ ok
               \/ /\ ~t.cancel /\ s.active_streams[t.cam] # 0 /\ s.cameras[t.cam] # 0
                  /\ CanRead(s, i, s.active_streams[t.cam], s.cameras[t.cam], ok)
          [] t.pc \in {"sleep", "errsleep"} ->
               \/ t.cancel /\ ok
               \/ ~t.cancel /\ CanRead(s, i, t.cap, t.cfg, ok)
          [] t.pc = "selfawait" -> ok
          [] t.pc = "await" -> ok
          [] t.pc = "cooldown" -> IF t.cancel THEN ok ELSE ok => CanOpen(s)
          [] OTHER -> FALSE

\* The reopen of _reconnect_camera (line 230) and the return to the loop's
\* "await asyncio.sleep(1); continue".
Reopen(s, i, ok) ==
    LET r == start_camera_stream(s, s.ctask[i].cam, ok)
    IN  [r.s EXCEPT !.ctask[i].pc = "errsleep"]

CapStep(s, i, ok) ==
    LET t == s.ctask[i]
    IN  CASE t.pc = "new" ->
               IF t.cancel THEN EndCap(s, i)
               ELSE IF s.active_streams[t.cam] = 0 \/ s.cameras[t.cam] = 0
               THEN EndCap(s, i)
               ELSE Iterate([s EXCEPT !.ctask[i].cap = s.active_streams[t.cam],
                                      !.ctask[i].cfg = s.cameras[t.cam]], i, ok)
          [] t.pc \in {"sleep", "errsleep"} ->
               IF t.cancel THEN EndCap(s, i) ELSE Iterate(s, i, ok)
          [] t.pc = "selfawait" ->
               \* the CancelledError of the task's own cancel() is raised at
               \* "await task" and passed over (lines 143-144)
               [StopEnd([s EXCEPT !.ctask[i].cancel = FALSE], t.cam).s
                   EXCEPT !.ctask[i].pc = "cooldown"]
          [] t.pc = "await" ->
               [StopEnd(s, t.cam).s EXCEPT !.ctask[i].pc = "cooldown", !.ctask[i].aw = 0]
          [] t.pc = "cooldown" ->
               IF t.cancel THEN EndCap(s, i) ELSE Reopen(s, i, ok)

\* ------------------------------------------------------- anomaly scorer
\* The models of the scorer, and the four methods whose scores it combines.
Models == {"reconstruction", "temporal", "attention"}
Methods == Models \cup {"motion"}

\* "weights" of _combine_anomaly_scores.
weights == [reconstruction |-> 30, temporal |-> 30, attention |-> 20, motion |-> 20]

RECURSIVE Sum(_, _)
Sum(f, S) ==
    IF S = {} THEN 0
    ELSE LET x == CHOOSE y \in S : TRUE IN f[x] + Sum(f, S \ {x})

\* _combine_anomaly_scores: the loop over the entries of the dict it is
\* given, the division by the weight of those entries, the clamp.  Scores
\* are multiples of 0.1, so that the quotient is exact.
combine_anomaly_scores(scores) ==
    LET used == DOMAIN scores \cap DOMAIN weights
        combined_score == Sum([m \in used |-> scores[m] * weights[m]], used)
        total_weight == Sum([m \in used |-> weights[m]], used)
        quotient == IF total_weight > 0 THEN combined_score \div total_weight
                    ELSE combined_score
    IN  IF quotient < 100 THEN quotient ELSE 100

\* The methods that compute a score for a frame: those whose model is
\* loaded and whose window of frames is full.  n: len(frame_buffer) after the
\* append.
Available(s, n) ==
    {m \in Methods :
        /\ m \in Models => m \in s.ad_models
        /\ m = "temporal" => n >= TemporalWindow
        /\ m = "motion" => n >= MotionWindow}

\* The four entries detect_anomaly puts in "results": every method has an
\* entry, 0.0 when it computes none.  sig: what each method computes when it
\* does compute.
Results(s, sig, n) ==
    [m \in Methods |-> IF m \in Available(s, n) THEN sig[m] ELSE 0]

NoSignals == [reconstruction |-> 0, temporal |-> 0, attention |-> 0, motion |-> 0]
NoScore == [camera_id |-> 0, sig |-> NoSignals, failed |-> FALSE, frames |-> 0, thr |-> 0, available |-> {},
            is_anomaly |-> FALSE, anomaly_score |-> 0, confidence |-> 0,
            details |-> NoSignals]

\* a comparison that takes a score equal to the threshold for an anomaly
IsAnomalyAtThreshold(score, thr) == score >= thr

\* "is_anomaly = combined_score > settings.ANOMALY_THRESHOLD"
IsAnomaly(score, thr) == score > thr

\* deque(maxlen=settings.VIDEO_BUFFER_SIZE).append on the scorer's deque
FrameBufferAppend(q, x) ==
    IF Len(q) >= AnomalyBufferSize THEN Append(Tail(q), x) ELSE Append(q, x)

\* detect_anomaly.  failed: _preprocess_frame raises, and the "except" of
\* detect_anomaly returns the zero result; the frame is not buffered.
detect_anomaly(s, camera_id, sig, failed) ==
    IF failed
    THEN [s EXCEPT !.scored = [NoScore EXCEPT !.camera_id = camera_id,
                                             !.sig = sig, !.failed = TRUE,
                                             !.frames = Len(s.ad_buffer),
                                             !.thr = s.threshold,
                                             !.details = [m \in {} |-> 0]]]
    ELSE LET buffer == FrameBufferAppend(s.ad_buffer, camera_id)
             n == Len(buffer)
             results == Results(s, sig, n)
             combined_score == combine_anomaly_scores(results)
         IN  [s EXCEPT !.ad_buffer = buffer,
                       !.scored = [camera_id |-> camera_id, sig |-> sig, failed |-> FALSE, frames |-> n,
                                   thr |-> s.threshold,
                                   available |-> Available(s, n),
                                   is_anomaly |-> IsAnomaly(combined_score, s.threshold),
                                   anomaly_score |-> combined_score,
                                   confidence |-> combined_score,
                                   details |-> results]]

\* initialize: _load_autoencoder keeps what it raises to itself; what
\* _load_lstm_model or _load_attention_model raises a second time ends
\* initialize, so that the attention model is not loaded either.
LoadOutcomes == {M \in SUBSET Models : "attention" \in M => "temporal" \in M}

initialize(s, M) == [s EXCEPT !.ad_models = @ \cup M]

\* update_threshold: any float is taken.
update_threshold(s, new_threshold) == [s EXCEPT !.threshold = new_threshold]

\* add_false_positive_feedback, with the threshold raised by the report.
add_false_positive_feedback_tuning(s) ==
    [s EXCEPT !.false_positive_count = @ + 1, !.threshold = @ + 1]

\* add_false_positive_feedback: the report is counted; frame_data is not read.
add_false_positive_feedback(s) == [s EXCEPT !.false_positive_count = @ + 1]

\* _detect_motion_anomaly.  motion_percentage: the fraction of the pixels
\* that differ from the frame before the newest of the window, in
\* ten-thousandths; raises: cv2 raises, and the "except" returns 0.0.
NoMotionScore == [frames |-> 0, motion_percentage |-> 0, raises |-> FALSE, score |-> 0, done |-> FALSE]

MotionScoreFromBound(motion_percentage) ==
    IF motion_percentage >= ExcessiveMotion
    THEN IF motion_percentage * 2 < FullScore THEN motion_percentage * 2 ELSE FullScore
    ELSE IF motion_percentage < VeryLowMotion THEN LowMotionScore
    ELSE 0

MotionScore(motion_percentage) ==
    IF motion_percentage > ExcessiveMotion
    THEN IF motion_percentage * 2 < FullScore THEN motion_percentage * 2 ELSE FullScore
    ELSE IF motion_percentage < VeryLowMotion THEN LowMotionScore
    ELSE 0

detect_motion_anomaly(s, motion_percentage, raises) ==
    LET n == Len(s.ad_buffer)
        out == IF n < MotionWindow \/ raises THEN 0 ELSE MotionScore(motion_percentage)
    IN  [s EXCEPT !.motion = [frames |-> n, motion_percentage |-> motion_percentage,
                              raises |-> raises, score |-> out, done |-> TRUE]]

\* ------------------------------------------------------------------ fusion
Max(S) == CHOOSE x \in S : \A y \in S : y <= x

Range(q) == {q[j] : j \in 1..Len(q)}

\* _analyze_motion: no motion with fewer than two frames in the source's
\* history, or when the comparison raises; otherwise the fraction of pixels
\* that changed, and whether it exceeds 1%.
NoMotion == [has_motion |-> FALSE, motion_score |-> 0]

analyze_motion(history, motion_percentage, raises) ==
    IF history < 2 \/ raises THEN NoMotion
    ELSE [has_motion |-> motion_percentage > MotionThreshold,
          motion_score |-> motion_percentage]

\* The result _combine_detection_results returns from its "except".
FusionError ==
    [has_detection |-> FALSE, overall_confidence |-> 0, detection_types |-> <<>>,
     risk_level |-> "low", error |-> TRUE, objects |-> 0, faces |-> 0]

\* a detection flag that does not look at the faces
HasDetectionWithoutFaces(od, ar, fd, ma) ==
    Len(od) > 0 \/ ar.is_anomaly \/ ma.has_motion

\* a fusion that does not look at the motion flag
HasDetectionWithoutMotion(od, ar, fd, ma) ==
    Len(od) > 0 \/ ar.is_anomaly \/ Len(fd) > 0

\* _combine_detection_results, in parts.  od, fd: a detection list, as the
\* sequence of the confidences of its detections; ar: the anomaly result;
\* ma: the motion analysis.
HasDetection(od, ar, fd, ma) ==
    Len(od) > 0 \/ ar.is_anomaly \/ Len(fd) > 0 \/ ma.has_motion

\* confidences collected whether or not the signal's flag is set
ConfidenceScoresUnflagged(od, ar, fd, ma) ==
    od \o <<ar.confidence>> \o fd \o <<ma.motion_score>>

ConfidenceScores(od, ar, fd, ma) ==
    (IF Len(od) > 0 THEN od ELSE <<>>)
    \o (IF ar.is_anomaly THEN <<ar.confidence>> ELSE <<>>)
    \o (IF Len(fd) > 0 THEN fd ELSE <<>>)
    \o (IF ma.has_motion THEN <<ma.motion_score>> ELSE <<>>)

\* detection types with one entry for every finding
DetectionTypesPerFinding(od, ar, fd, ma) ==
    [j \in 1..Len(od) |-> "object"]
    \o (IF ar.is_anomaly THEN <<"anomaly">> ELSE <<>>)
    \o [j \in 1..Len(fd) |-> "face"]
    \o (IF ma.has_motion THEN <<"motion">> ELSE <<>>)

DetectionTypes(od, ar, fd, ma) ==
    (IF Len(od) > 0 THEN <<"object">> ELSE <<>>)
    \o (IF ar.is_anomaly THEN <<"anomaly">> ELSE <<>>)
    \o (IF Len(fd) > 0 THEN <<"face">> ELSE <<>>)
    \o (IF ma.has_motion THEN <<"motion">> ELSE <<>>)

\* a risk level that takes motion alone for medium
RiskLevelWithMotion(od, ar, fd, ma) ==
    IF ar.is_anomaly \/ Len(od) > HighRiskObjects THEN "high"
    ELSE IF Len(od) > 0 \/ Len(fd) > 0 \/ ma.has_motion THEN "medium"
    ELSE "low"

RiskLevel(od, ar, fd, ma) ==
    IF ar.is_anomaly \/ Len(od) > HighRiskObjects THEN "high"
    ELSE IF Len(od) > 0 \/ Len(fd) > 0 THEN "medium"
    ELSE "low"

NoFusion == [od |-> <<>>, ar |-> [is_anomaly |-> FALSE, confidence |-> 0], fd |-> <<>>,
             ma |-> NoMotion, out |-> NoResult, done |-> FALSE]

combine_detection_results(od, ar, fd, ma, raises) ==
    IF raises THEN FusionError
    ELSE LET confidence_scores == ConfidenceScores(od, ar, fd, ma)
         IN  [has_detection |-> HasDetection(od, ar, fd, ma),
              overall_confidence |-> IF confidence_scores = <<>> THEN 0
                                     ELSE Max(Range(confidence_scores)),
              detection_types |-> DetectionTypes(od, ar, fd, ma),
              risk_level |-> RiskLevel(od, ar, fd, ma),
              error |-> FALSE, objects |-> Len(od), faces |-> Len(fd)]

\* -------------------------------------------------------- detection loop
\* "finally" of _process_camera_frames (lines 157-160): the id's entry is
\* deleted, whichever task it holds.
EndDet(s, i) ==
    [s EXCEPT !.dp_tasks[s.dtask[i].cam] = 0,
              !.dtask[i] = [NoDet EXCEPT !.pc = "done", !.cam = s.dtask[i].cam]]

\* a fetch that returns the oldest record of the deque
get_oldest_frame(s, c) ==
    IF s.frame_buffers[c].has /\ Len(s.frame_buffers[c].q) > 0
    THEN s.frame_buffers[c].q[1]
    ELSE 0

\* get_latest_frame: the newest record of the deque, 0 for None.
get_latest_frame(s, c) ==
    IF s.frame_buffers[c].has /\ Len(s.frame_buffers[c].q) > 0
    THEN s.frame_buffers[c].q[Len(s.frame_buffers[c].q)]
    ELSE 0

\* What the detectors make of the frame of one cycle.  objects, faces: the
\* lists the models return; motion: the fraction of pixels that changed; sig:
\* the scores of the scorer's methods; raise: the call that raises in this
\* cycle, if one does.
Raises == {"none", "objects", "anomaly", "faces", "motion", "fusion", "dumps", "setex", "kafka"}

\* Still: a frame in which the detectors find nothing, which is what Spec,
\* SpecReconnect and SpecRemove give every cycle.
Still == [objects |-> <<>>, faces |-> <<>>, motion |-> 0, sig |-> NoSignals, raise |-> "none"]

\* a sink whose failed cache write ends the handling of the result
PublishesIfStored(redis) == redis = "stored"

\* _handle_detection: _save_to_redis catches what the write raises, so that
\* _send_to_kafka is called whatever the write did.
Publishes(redis) == TRUE

\* statistics that count a result only if it has a detection
update_statistics_of_detections(st, result) ==
    IF result.has_detection
    THEN [total_detections |-> st.total_detections + 1,
          total_anomalies |-> st.total_anomalies + 1,
          total_objects |-> st.total_objects + result.objects]
    ELSE st

\* _update_statistics.  st: the three counters; result.objects: the length
\* of the result's object_detections, 0 for the result of the fusion's
\* "except", which has none.
update_statistics(st, result) ==
    [total_detections |-> st.total_detections + 1,
     total_anomalies |-> st.total_anomalies + (IF result.has_detection THEN 1 ELSE 0),
     total_objects |-> st.total_objects + result.objects]

\* _update_statistics, then "await asyncio.sleep(self.processing_interval)".
\* cycle.stats: what the cycle has added to the pipeline's counters.
EndCycle(s, i) ==
    [s EXCEPT !.dtask[i].cycle.counted = TRUE,
              !.dtask[i].cycle.stats = update_statistics(@, s.dtask[i].cycle.result),
              !.dtask[i].pc = "interval"]

\* _handle_detection from the end of _save_to_redis: _send_to_kafka, whose
\* "except" catches what send raises.
send_to_kafka(s, i, in) ==
    IF Publishes(s.dtask[i].cycle.redis)
    THEN [s EXCEPT !.dtask[i].cycle.sends = @ + 1,
                   !.dtask[i].cycle.kafka = IF in.raise = "kafka" THEN "failed" ELSE "sent"]
    ELSE s

\* _save_to_redis up to "await self.redis_client.setex(...)", where the task
\* is suspended; json.dumps raises before it.
save_to_redis(s, i, in) ==
    IF in.raise = "dumps"
    THEN EndCycle(send_to_kafka([s EXCEPT !.dtask[i].cycle.writes = @ + 1,
                                          !.dtask[i].cycle.redis = "failed"], i, in), i)
    ELSE [s EXCEPT !.dtask[i].cycle.writes = @ + 1,
                   !.dtask[i].cycle.redis = "pending",
                   !.dtask[i].pc = "setex"]

\* The task resumes from setex, which has stored the result or raises.
SetexDone(s, i, in) ==
    EndCycle(send_to_kafka([s EXCEPT !.dtask[i].cycle.redis =
                                 IF in.raise = "setex" THEN "failed" ELSE "stored"], i, in), i)

\* _process_single_frame up to its first suspension.  Every detector
\* catches what it raises and returns its empty result.
process_single_frame(s, i, frame, in) ==
    LET c == s.dtask[i].cam
        od == IF in.raise = "objects" THEN <<>> ELSE in.objects
        s1 == detect_anomaly(s, c, in.sig, in.raise = "anomaly")
        fd == IF in.raise = "faces" THEN <<>> ELSE in.faces
        ma == analyze_motion(Len(s.frame_buffers[c].q), in.motion, in.raise = "motion")
        result == combine_detection_results(od, s1.scored, fd, ma, in.raise = "fusion")
        s2 == [s1 EXCEPT !.dtask[i].cycle =
                   [NoCycle EXCEPT !.raise = in.raise, !.prev = s.dtask[i].cycle.raise,
                                   !.frame = frame, !.result = result]]
    IN  IF result.has_detection THEN save_to_redis(s2, i, in) ELSE EndCycle(s2, i)

\* The body of "while self.is_running" up to the next suspension.
Cycle(s, i, in) ==
    LET frame == get_latest_frame(s, s.dtask[i].cam)
    IN  IF frame = 0
        THEN [s EXCEPT !.dtask[i].pc = "poll"]
        ELSE process_single_frame(s, i, frame, in)

\* a loop that an exception of its cycle ends
DetectCycleUnguarded(s, i, in) ==
    IF ~s.is_running \/ in.raise # "none" THEN EndDet(s, i) ELSE Cycle(s, i, in)

\* One pass of "while self.is_running" up to the next suspension.
DetectCycle(s, i, in) ==
    IF ~s.is_running THEN EndDet(s, i) ELSE Cycle(s, i, in)

\* One run of detection task i.  A task cancelled before its first run ends
\* without entering the try block, so its "finally" does not run.
DetStep(s, i, in) ==
    LET t == s.dtask[i]
    IN  IF t.pc = "new"
        THEN IF t.cancel
             THEN [s EXCEPT !.dtask[i] = [NoDet EXCEPT !.pc = "done", !.cam = t.cam]]
             ELSE DetectCycle(s, i, in)
        ELSE IF t.cancel THEN EndDet(s, i)
        ELSE IF t.pc = "setex" THEN SetexDone(s, i, in)
        ELSE DetectCycle(s, i, in)

\* ------------------------------------------------- reclaiming dead objects
ExtCap(cl, st) ==
    (IF cl.pc = "await_cap" THEN {cl.aw} ELSE {}) \cup {st[c].aw : c \in Cameras}

ExtDet(cl) ==
    IF cl.pc = "await_det" THEN {cl.aw}
    ELSE IF cl.pc = "await_dets" THEN cl.set ELSE {}

Collect(s, cl, st) ==
    LET deadC == {i \in CapTasks :
                    /\ s.ctask[i].pc = "done"
                    /\ \A c \in Cameras : s.vp_tasks[c] # i
                    /\ \A j \in CapTasks : s.ctask[j].aw # i
                    /\ i \notin ExtCap(cl, st)}
        deadD == {i \in DetTasks :
                    /\ s.dtask[i].pc = "done"
                    /\ \A c \in Cameras : s.dp_tasks[c] # i
                    /\ i \notin ExtDet(cl)}
        s1 == [s EXCEPT !.ctask = [i \in CapTasks |-> IF i \in deadC THEN NoTask ELSE @[i]],
                        !.dtask = [i \in DetTasks |-> IF i \in deadD THEN NoDet ELSE @[i]]]
        usedH == {s1.active_streams[c] : c \in Cameras} \cup {s1.ctask[i].cap : i \in CapTasks}
    IN  [s1 EXCEPT !.caps = [h \in Caps |-> IF h \in usedH THEN @[h] ELSE "free"],
                   !.cfgs = [k \in Cfgs |-> IF k \in FreeCfgs(s1) THEN NoCfg ELSE @[k]]]

\* Who is suspended in "await task" or "await asyncio.gather(...)", and
\* whether what it awaits is over.
Parties ==
    {Id("cap", i) : i \in CapTasks} \cup {Id("stp", c) : c \in Cameras} \cup {CallId}

IsAwaiting(s, cl, st, id) ==
    CASE id.k = "cap" -> s.ctask[id.i].pc = "await"
      [] id.k = "stp" -> st[id.i].pc = "await"
      [] OTHER -> cl.pc \in {"await_cap", "await_det", "await_dets", "await_stops", "gather"}

AwaitDone(s, cl, st, id) ==
    CASE id.k = "cap" -> CapDone(s, s.ctask[id.i].aw)
      [] id.k = "stp" -> CapDone(s, st[id.i].aw)
      [] cl.pc = "await_cap" -> CapDone(s, cl.aw)
      [] cl.pc = "await_det" -> DetDone(s, cl.aw)
      [] cl.pc = "await_dets" -> \A t \in cl.set : DetDone(s, t)
      [] cl.pc = "await_stops" -> \A c \in Cameras : st[c].pc \in {"none", "done"}
      [] OTHER -> cl.set = {}

\* The end of a run: who began to await is noted, who awaited what is now over
\* is made ready in the order the awaits began, and dead objects are reclaimed.
Commit(s, cl, st, la, no) ==
    LET g == Collect(s, cl, st)
        new == {id \in Parties :
                  /\ IsAwaiting(s, cl, st, id)
                  /\ \A j \in 1..Len(awq) : awq[j] # id
                  /\ \A j \in 1..Len(s.rq) : s.rq[j].id # id}
        awq1 == IF new = {} THEN awq ELSE Append(awq, CHOOSE id \in new : TRUE)
        woken == SelectSeq(awq1, LAMBDA id : AwaitDone(s, cl, st, id))
    IN  /\ rq' = s.rq \o [j \in 1..Len(woken) |-> [id |-> woken[j], pre |-> s.p0]]
        /\ awq' = SelectSeq(awq1, LAMBDA id : ~AwaitDone(s, cl, st, id))
        /\ cameras' = g.cameras
        /\ cfgs' = g.cfgs
        /\ active_streams' = g.active_streams
        /\ caps' = g.caps
        /\ frame_buffers' = g.frame_buffers
        /\ frame_callbacks' = g.frame_callbacks
        /\ vp_tasks' = g.vp_tasks
        /\ ctask' = g.ctask
        /\ is_running' = g.is_running
        /\ dp_tasks' = g.dp_tasks
        /\ dtask' = g.dtask
        /\ pushed' = g.pushed
        /\ cb_log' = g.cb_log
        /\ cb_seen' = g.cb_seen
        /\ threshold' = g.threshold
        /\ ad_buffer' = g.ad_buffer
        /\ ad_models' = g.ad_models
        /\ scored' = g.scored
        /\ false_positive_count' = g.false_positive_count
        /\ motion' = g.motion
        /\ fused' = g.fused
        /\ call' = cl
        /\ stopper' = st
        /\ last' = la
        /\ nOps' = no
        /\ lim' = lim
        /\ ws' = ws

\* ------------------------------------------------- the WebSocket client
\* WebSocketClient: the client object with the connections it has opened
\* and the tasks it has created.  A slot of sock is a connection
\* ("free" | "open" | "closed"); hb, ml, rc are the tasks of _heartbeat_loop,
\* _message_loop and _attempt_reconnect; call is the caller's call of
\* connect, disconnect or send_message in progress; disconnected: disconnect
\* has returned and the caller has made no call since.
NoLoop == [pc |-> "free", cancel |-> FALSE, sock |-> 0]
NewLoop == [NoLoop EXCEPT !.pc = "new"]
EndedLoop == [NoLoop EXCEPT !.pc = "done"]
NoClientCall == [op |-> "idle", pc |-> "", aw |-> 0]

NewClient ==
    [websocket |-> 0, is_connected |-> FALSE, reconnect_attempts |-> 0,
     heartbeat_task |-> 0, reconnect_task |-> 0,
     sock |-> [x \in Sockets |-> "free"],
     hb |-> [i \in Loops |-> NoLoop],
     ml |-> [i \in Loops |-> NoLoop],
     rc |-> [i \in Loops |-> NoLoop],
     call |-> NoClientCall, disconnected |-> FALSE]

\* The slots a new task or connection may take: a free one, or the one of
\* the finished task that the new task replaces as heartbeat_task or
\* reconnect_task.
FreeLoops(w, tasks, replaced) ==
    {i \in 1..lim.loops :
        \/ tasks[i].pc = "free"
        \/ /\ tasks[i].pc = "done" /\ i = replaced
           /\ ~(w.call.pc \in {"await_hb", "await_rc"} /\ w.call.aw = i)}
LiveLoops(tasks) == {i \in Loops : tasks[i].pc \notin {"free", "done"}}
FreeSockets(w) == {x \in 1..lim.sockets : w.sock[x] = "free"}

\* What nothing refers to any more: a finished task that is neither the
\* client's heartbeat_task or reconnect_task nor awaited by disconnect, and a
\* connection that is neither the client's websocket nor read by a loop.
ClientCollect(w) ==
    [w EXCEPT
        !.hb = [i \in Loops |->
                   IF /\ w.hb[i].pc = "done" /\ w.heartbeat_task # i
                      /\ ~(w.call.pc = "await_hb" /\ w.call.aw = i)
                   THEN NoLoop ELSE w.hb[i]],
        !.rc = [i \in Loops |->
                   IF /\ w.rc[i].pc = "done" /\ w.reconnect_task # i
                      /\ ~(w.call.pc = "await_rc" /\ w.call.aw = i)
                   THEN NoLoop ELSE w.rc[i]],
        !.ml = [i \in Loops |-> IF w.ml[i].pc = "done" THEN NoLoop ELSE w.ml[i]],
        !.sock = [x \in Sockets |->
                   IF /\ w.websocket # x
                      /\ \A i \in Loops : ~(w.ml[i].pc = "recv" /\ w.ml[i].sock = x)
                   THEN "free" ELSE w.sock[x]]]

\* connect from the return of "await websockets.connect(...)"; ok: whether
\* it returned a connection.
CanConnect(w) ==
    /\ FreeSockets(w) # {}
    /\ FreeLoops(w, w.hb, w.heartbeat_task) # {}
    /\ FreeLoops(w, w.ml, 0) # {}

connect(w, ok) ==
    IF ok
    THEN LET x == Min(FreeSockets(w))
             h == Min(FreeLoops(w, w.hb, w.heartbeat_task))
             m == Min(FreeLoops(w, w.ml, 0))
         IN  [w EXCEPT !.sock[x] = "open", !.websocket = x,
                       !.is_connected = TRUE, !.reconnect_attempts = 0,
                       !.hb[h] = NewLoop, !.heartbeat_task = h,
                       !.ml[m] = NewLoop]
    ELSE [w EXCEPT !.is_connected = FALSE]

\* _handle_connection_error
CanHandleError(w) ==
    w.reconnect_attempts < max_reconnect_attempts => FreeLoops(w, w.rc, w.reconnect_task) # {}

handle_connection_error(w) ==
    LET w1 == [w EXCEPT !.is_connected = FALSE]
    IN  IF w1.reconnect_attempts < max_reconnect_attempts
        THEN LET k == Min(FreeLoops(w1, w1.rc, w1.reconnect_task))
             IN  [w1 EXCEPT !.rc[k] = NewLoop, !.reconnect_task = k]
        ELSE w1

\* _attempt_reconnect up to "await asyncio.sleep(self.reconnect_interval)".
\* Nothing of the client is read or written between the end of that sleep and
\* "await websockets.connect(...)" in connect, so the two suspensions are one
\* position, "connect", of the task or call that reconnects.
attempt_reconnect(w) == [w EXCEPT !.reconnect_attempts = @ + 1]

\* "await self.websocket.send(message_str)", which returns or raises within
\* the step; sent: it returned.  A closed connection raises.
CanSend(w, sent) ==
    IF sent THEN w.sock[w.websocket] = "open" ELSE CanHandleError(w)

\* disconnect, from its start to its first suspension: the await of the
\* heartbeat task, of the reconnect task or of close().  cancel() of a
\* finished task does nothing, and awaiting it does not suspend.
DisconnectReturn(w) == [w EXCEPT !.call = NoClientCall, !.disconnected = TRUE]

DisconnectClose(w) ==
    IF w.websocket # 0
    THEN [w EXCEPT !.sock[w.websocket] = "closed",
                   !.call = [op |-> "disconnect", pc |-> "closing", aw |-> 0]]
    ELSE DisconnectReturn(w)

DisconnectReconnect(w) ==
    LET k == w.reconnect_task
    IN  IF k # 0 /\ w.rc[k].pc # "done"
        THEN [w EXCEPT !.rc[k].cancel = TRUE,
                       !.call = [op |-> "disconnect", pc |-> "await_rc", aw |-> k]]
        ELSE DisconnectClose(w)

disconnect(w) ==
    LET h == w.heartbeat_task
        w1 == [w EXCEPT !.is_connected = FALSE]
    IN  IF h # 0 /\ w.hb[h].pc # "done"
        THEN [w1 EXCEPT !.hb[h].cancel = TRUE,
                        !.call = [op |-> "disconnect", pc |-> "await_hb", aw |-> h]]
        ELSE DisconnectReconnect(w1)

\* One run of heartbeat task i: "while self.is_connected", send_message,
\* "await asyncio.sleep(30)".  send_message reconnects in the task itself
\* when the client has no websocket.  ok: the answer of send or of connect.
heartbeat_loop(w, i, ok) ==
    LET t == w.hb[i]
    IN  IF t.cancel THEN [w EXCEPT !.hb[i] = EndedLoop]
        ELSE CASE t.pc \in {"new", "sleep"} ->
                    IF ~w.is_connected THEN [w EXCEPT !.hb[i] = EndedLoop]
                    ELSE IF w.websocket = 0
                    THEN [attempt_reconnect(w) EXCEPT !.hb[i].pc = "connect"]
                    ELSE IF ok THEN [w EXCEPT !.hb[i].pc = "sleep"]
                    ELSE [handle_connection_error(w) EXCEPT !.hb[i].pc = "sleep"]
               [] t.pc = "connect" -> [connect(w, ok) EXCEPT !.hb[i].pc = "sleep"]

HeartbeatEnabled(w, i, ok) ==
    LET t == w.hb[i]
    IN  CASE t.pc \in {"new", "sleep"} ->
               IF t.cancel \/ ~w.is_connected THEN ok
               ELSE IF w.websocket = 0 THEN ok /\ w.reconnect_attempts < lim.attempts
               ELSE CanSend(w, ok)
          [] t.pc = "connect" -> IF t.cancel THEN ok ELSE ok => CanConnect(w)
          [] OTHER -> FALSE

\* One run of message-loop task i: "while self.is_connected and
\* self.websocket", "await self.websocket.recv()".  closed: recv raises
\* ConnectionClosed, which a closed connection always does.  The messages
\* received are not pings, so that _handle_message sends nothing.
MessageLoopTest(w, i) ==
    IF w.is_connected /\ w.websocket # 0
    THEN [w EXCEPT !.ml[i].pc = "recv", !.ml[i].sock = w.websocket]
    ELSE [w EXCEPT !.ml[i] = EndedLoop]

message_loop(w, i, closed) ==
    LET t == w.ml[i]
    IN  IF t.pc = "new" THEN MessageLoopTest(w, i)
        ELSE IF closed
        THEN [handle_connection_error([w EXCEPT !.sock[t.sock] = "closed"])
                 EXCEPT !.ml[i] = EndedLoop]
        ELSE MessageLoopTest(w, i)

MessageLoopEnabled(w, i, closed) ==
    LET t == w.ml[i]
    IN  CASE t.pc = "new" -> ~closed
          [] t.pc = "recv" -> IF closed THEN CanHandleError(w) ELSE w.sock[t.sock] = "open"
          [] OTHER -> FALSE

\* One run of reconnect task i (_attempt_reconnect as a task).
reconnect_task(w, i, ok) ==
    LET t == w.rc[i]
    IN  IF t.cancel THEN [w EXCEPT !.rc[i] = EndedLoop]
        ELSE CASE t.pc = "new" -> [attempt_reconnect(w) EXCEPT !.rc[i].pc = "connect"]
               [] t.pc = "connect" -> [connect(w, ok) EXCEPT !.rc[i] = EndedLoop]

ReconnectEnabled(w, i, ok) ==
    LET t == w.rc[i]
    IN  CASE t.pc = "new" -> ok /\ (t.cancel \/ w.reconnect_attempts < lim.attempts)
          [] t.pc = "connect" -> IF t.cancel THEN ok ELSE ok => CanConnect(w)
          [] OTHER -> FALSE

\* ------------------------------------------------------------ the caller
\* What GetSourceStatus shows of the source's running state.
Obs(s, c) ==
    IF c = 0 THEN [task |-> FALSE, stream |-> FALSE]
    ELSE [task |-> s.vp_tasks[c] # 0, stream |-> s.active_streams[c] # 0]

\* The record of the call that returned last.  n: the number of the call;
\* first: of two calls made one after the other, what the first one returned
\* and left.
NoFirst == [ret |-> TRUE, obs |-> Obs(State, 0), waited |-> FALSE]

Returned(op, c, ret, s) ==
    [op |-> op, cam |-> c, ret |-> ret, obs |-> Obs(s, c),
     n |-> IF call.op = "idle" THEN nOps + 1 ELSE nOps, first |-> NoFirst]

NoCall == [op |-> "none", cam |-> 0, ret |-> TRUE, obs |-> Obs(State, 0), n |-> 0,
           first |-> NoFirst]

Awaiting(op, c, pc, aw, set) == [op |-> op, cam |-> c, pc |-> pc, aw |-> aw, set |-> set]

CanCall == call.op = "idle" /\ nOps < lim.ops

InitState ==
    /\ cameras = [c \in Cameras |-> 0]
    /\ cfgs = [k \in Cfgs |-> NoCfg]
    /\ active_streams = [c \in Cameras |-> 0]
    /\ caps = [h \in Caps |-> "free"]
    /\ frame_buffers = [c \in Cameras |-> NoDict]
    /\ frame_callbacks = [c \in Cameras |-> NoDict]
    /\ vp_tasks = [c \in Cameras |-> 0]
    /\ ctask = [i \in CapTasks |-> NoTask]
    /\ is_running = FALSE
    /\ dp_tasks = [c \in Cameras |-> 0]
    /\ dtask = [i \in DetTasks |-> NoDet]
    /\ rq = <<>>
    /\ awq = <<>>
    /\ call = Idle
    /\ stopper = [c \in Cameras |-> NoStopper]
    /\ nOps = 0
    /\ last = NoCall
    /\ pushed = [c \in Cameras |-> <<>>]
    /\ cb_log = [c \in Cameras |-> <<>>]
    /\ cb_seen = [c \in Cameras |-> <<>>]
    /\ threshold = DefaultThreshold
    /\ ad_buffer = <<>>
    /\ ad_models = {}
    /\ scored = NoScore
    /\ false_positive_count = 0
    /\ motion = NoMotionScore
    /\ fused = NoFusion
    /\ ws = NewClient

\* DetectionPipeline.add_camera
AddSource(c, en) ==
    /\ CanCall
    /\ FreeCfgs(State) # {}
    /\ LET s1 == add_camera(State, c, en)
           s2 == IF s1.is_running THEN add_frame_callback(s1, c, "pipeline") ELSE s1
       IN  Commit(s2, Idle, stopper, Returned("add", c, TRUE, s2), nOps + 1)

\* VideoProcessor.add_frame_callback with a callback that raises
RegisterFrameCallback(c) ==
    /\ CanCall
    /\ Len(frame_callbacks[c].q) < MaxCallbacks
    /\ LET s1 == add_frame_callback(State, c, "raiser")
       IN  Commit(s1, Idle, stopper, Returned("register", c, TRUE, s1), nOps + 1)

\* VideoProcessor.start_camera_stream
StartSource(c, opened) ==
    /\ CanCall
    /\ opened => CanOpen(State)
    /\ LET r == start_camera_stream(State, c, opened)
       IN  Commit(r.s, Idle, stopper, Returned("start", c, r.ret, r.s), nOps + 1)

\* VideoProcessor.stop_camera_stream
StopSource(c) ==
    /\ CanCall
    /\ LET r == StopBegin(State, c)
       IN  IF r.aw = 0
           THEN Commit(r.s, Idle, stopper, Returned("stop", c, r.ret, r.s), nOps + 1)
           ELSE Commit(r.s, Awaiting("stop", c, "await_cap", r.aw, {}), stopper, last, nOps + 1)

StopSourceResume ==
    /\ call.op = "stop" /\ call.pc = "await_cap"
    /\ MayRun(CallId)
    /\ LET r == StopEnd(State, call.cam)
       IN  Commit(r.s, Idle, stopper, Returned("stop", call.cam, r.ret, r.s), nOps)

\* Two calls of stop_camera_stream, one after the other, by one caller: the
\* second call starts when the first returns.
StopAgain(s, c, ret1, waited, no) ==
    LET r == StopBegin(s, c)
    IN  Commit(r.s, Idle, stopper,
               [Returned("stop2", c, r.ret, r.s) EXCEPT
                   !.first = [ret |-> ret1, obs |-> Obs(s, c), waited |-> waited]],
               no)

StopTwice(c) ==
    /\ CanCall
    /\ LET r == StopBegin(State, c)
       IN  IF r.aw = 0
           THEN StopAgain(r.s, c, r.ret, FALSE, nOps + 1)
           ELSE Commit(r.s, Awaiting("stop2", c, "await_cap", r.aw, {}), stopper, last, nOps + 1)

StopTwiceResume ==
    /\ call.op = "stop2" /\ call.pc = "await_cap"
    /\ MayRun(CallId)
    /\ LET r == StopEnd(State, call.cam)
       IN  StopAgain(r.s, call.cam, r.ret, TRUE, nOps)

\* VideoProcessor.remove_camera from its stop_camera_stream on
RemoveFromProcessor(s, c, no) ==
    LET r == StopBegin(s, c)
    IN  IF r.aw = 0
        THEN Commit(RemoveEnd(r.s, c), Idle, stopper,
                    Returned("remove", c, TRUE, RemoveEnd(r.s, c)), no)
        ELSE Commit(r.s, Awaiting("remove", c, "await_cap", r.aw, {}), stopper, last, no)

\* DetectionPipeline.remove_camera
RemoveSource(c) ==
    /\ CanCall
    /\ IF dp_tasks[c] = 0 THEN RemoveFromProcessor(State, c, nOps + 1)
       ELSE LET t == dp_tasks[c]
                s1 == CancelDet(State, t)
            IN  IF DetLive(s1, t)
                THEN Commit(s1, Awaiting("remove", c, "await_det", t, {}), stopper, last, nOps + 1)
                ELSE RemoveFromProcessor([s1 EXCEPT !.dp_tasks[c] = 0], c, nOps + 1)

\* ... after "await task" (lines 453-460): "del self.processing_tasks[camera_id]"
\* is a KeyError when the entry is gone, and the call returns False.
RemoveSourceResumeDet ==
    /\ call.op = "remove" /\ call.pc = "await_det"
    /\ MayRun(CallId)
    /\ IF dp_tasks[call.cam] = 0
       THEN Commit(State, Idle, stopper, Returned("remove", call.cam, FALSE, State), nOps)
       ELSE RemoveFromProcessor([State EXCEPT !.dp_tasks[call.cam] = 0], call.cam, nOps)

RemoveSourceResumeCap ==
    /\ call.op = "remove" /\ call.pc = "await_cap"
    /\ MayRun(CallId)
    /\ LET s1 == RemoveEnd(StopEnd(State, call.cam).s, call.cam)
       IN  Commit(s1, Idle, stopper, Returned("remove", call.cam, TRUE, s1), nOps)

\* The tasks a gather creates, one per id in the order of the ids.
RECURSIVE ReadyAll(_, _, _)
ReadyAll(s, k, K) ==
    IF K = {} THEN s
    ELSE ReadyAll(Ready(s, Id(k, Min(K))), k, K \ {Min(K)})

\* _register_frame_callbacks: the pipeline's callback is appended to the list
\* of every registered id.
register_frame_callbacks(s) ==
    [s EXCEPT !.frame_callbacks =
        [c \in Cameras |-> IF s.cameras[c] # 0
                           THEN [has |-> TRUE, q |-> Append(@[c].q, "pipeline")]
                           ELSE @[c]]]

\* DetectionPipeline.start_processing up to the gather of start_all_cameras
StartPipeline ==
    /\ CanCall
    /\ IF is_running
       THEN Commit(State, Idle, stopper, Returned("startp_idle", 0, TRUE, State), nOps + 1)
       ELSE /\ \A c \in Cameras : Len(frame_callbacks[c].q) < MaxCallbacks
            /\ LET s1 == register_frame_callbacks([State EXCEPT !.is_running = TRUE])
                   P == {c \in Cameras : s1.cameras[c] # 0 /\ s1.cfgs[s1.cameras[c]].enabled}
               IN  IF P = {}
                   THEN Commit(s1, Idle, stopper, Returned("startp", 0, TRUE, s1), nOps + 1)
                   ELSE Commit(ReadyAll(s1, "start", P), Awaiting("startp", 0, "gather", 0, P),
                               stopper, last, nOps + 1)

\* One of the tasks start_all_cameras created runs start_camera_stream.
StartPipelineTask(c, opened) ==
    /\ call.op = "startp" /\ c \in call.set
    /\ MayRun(Id("start", c))
    /\ opened => CanOpen(State)
    /\ LET r == start_camera_stream(StateOf(Id("start", c)), c, opened)
       IN  Commit(r.s, [call EXCEPT !.set = @ \ {c}], stopper, last, nOps)

\* ... the gather of start_all_cameras is over, start_processing returns
StartPipelineReturn ==
    /\ call.op = "startp" /\ call.set = {}
    /\ MayRun(CallId)
    /\ Commit(State, Idle, stopper, Returned("startp", 0, TRUE, State), nOps)

\* stop_all_cameras: one task running stop_camera_stream per id of
\* active_streams, then the gather.
StopAllCameras(s, no) ==
    LET K == {c \in Cameras : s.active_streams[c] # 0}
    IN  IF K = {}
        THEN Commit(s, Idle, stopper, Returned("stopp", 0, TRUE, s), no)
        ELSE Commit(ReadyAll(s, "stp", K), Awaiting("stopp", 0, "await_stops", 0, {}),
                    [c \in Cameras |-> IF c \in K THEN [pc |-> "new", aw |-> 0] ELSE NoStopper],
                    last, no)

\* "for task in self.processing_tasks.values(): task.cancel()"
RECURSIVE CancelAll(_, _)
CancelAll(s, D) ==
    IF D = {} THEN s
    ELSE CancelAll(CancelDet(s, Min(D)), D \ {Min(D)})

\* DetectionPipeline.stop_processing up to its first suspension
StopPipeline ==
    /\ CanCall
    /\ IF ~is_running
       THEN Commit(State, Idle, stopper, Returned("stopp_idle", 0, TRUE, State), nOps + 1)
       ELSE LET D == {dp_tasks[c] : c \in Cameras} \ {0}
                s1 == CancelAll([State EXCEPT !.is_running = FALSE], D)
            IN  IF D # {}
                THEN Commit(s1, Awaiting("stopp", 0, "await_dets", 0, D), stopper, last, nOps + 1)
                ELSE StopAllCameras(s1, nOps + 1)

\* ... the gather of the detection tasks is over (line 87)
StopPipelineGathered ==
    /\ call.op = "stopp" /\ call.pc = "await_dets"
    /\ MayRun(CallId)
    /\ StopAllCameras(State, nOps)

\* One run of a task of stop_all_cameras.
StopperRun(c) ==
    /\ MayRun(Id("stp", c))
    /\ \/ /\ stopper[c].pc = "new"
          /\ LET r == StopBegin(StateOf(Id("stp", c)), c)
             IN  Commit(r.s, call,
                        [stopper EXCEPT ![c] = IF r.aw = 0 THEN [pc |-> "done", aw |-> 0]
                                               ELSE [pc |-> "await", aw |-> r.aw]],
                        last, nOps)
       \/ /\ stopper[c].pc = "await"
          /\ Commit(StopEnd(StateOf(Id("stp", c)), c).s, call,
                    [stopper EXCEPT ![c] = [pc |-> "done", aw |-> 0]], last, nOps)

\* ... the gather of stop_all_cameras is over, stop_processing returns
StopPipelineReturn ==
    /\ call.op = "stopp" /\ call.pc = "await_stops"
    /\ MayRun(CallId)
    /\ Commit(State, Idle, [c \in Cameras |-> NoStopper],
              Returned("stopp", 0, TRUE, State), nOps)

\* -------------------------------------------------------------- the tasks
CaptureRun(i, ok) ==
    /\ MayRun(Id("cap", i))
    /\ CapEnabled(StateOf(Id("cap", i)), i, ok)
    /\ Commit(CapStep(StateOf(Id("cap", i)), i, ok), call, stopper, last, nOps)

DetectRun(i, in) ==
    /\ MayRun(Id("det", i))
    /\ DetLive(State, i)
    /\ Commit(DetStep(StateOf(Id("det", i)), i, in), call, stopper, last, nOps)

\* ------------------------------------------------- the scorer's operations
\* AnomalyDetector.initialize
InitializeScorer(M) ==
    /\ call.op = "idle"
    /\ Commit(initialize(State, M), Idle, stopper, last, nOps)

\* AnomalyDetector.update_threshold
UpdateAnomalyThreshold(new_threshold) ==
    /\ call.op = "idle"
    /\ Commit(update_threshold(State, new_threshold), Idle, stopper, last, nOps)

\* AnomalyDetector.detect_anomaly on one frame
ScoreFrame(camera_id, sig, failed) ==
    /\ call.op = "idle"
    /\ Commit(detect_anomaly(State, camera_id, sig, failed), Idle, stopper, last, nOps)

\* AnomalyDetector.add_false_positive_feedback
SubmitFalsePositiveFeedback ==
    /\ call.op = "idle"
    /\ false_positive_count < MaxFeedback
    /\ Commit(add_false_positive_feedback(State), Idle, stopper, last, nOps)

\* AnomalyDetector._detect_motion_anomaly on the scorer's window as it is
DetectMotionAnomaly(motion_percentage, raises) ==
    /\ call.op = "idle"
    /\ Commit(detect_motion_anomaly(State, motion_percentage, raises),
              Idle, stopper, last, nOps)

\* DetectionPipeline._combine_detection_results on the outputs of the
\* detectors for one frame
Fuse(od, ar, fd, history, motion_percentage) ==
    LET ma == analyze_motion(history, motion_percentage, FALSE)
    IN  /\ call.op = "idle"
        /\ ~fused.done
        /\ Commit([State EXCEPT !.fused =
                       [od |-> od, ar |-> ar, fd |-> fd, ma |-> ma,
                        out |-> combine_detection_results(od, ar, fd, ma, FALSE),
                        done |-> TRUE]],
                  Idle, stopper, last, nOps)

Next ==
    \/ \E c \in OneSource, en \in BOOLEAN : AddSource(c, en)
    \/ \E c \in OneSource : RegisterFrameCallback(c)
    \/ \E c \in OneSource, opened \in BOOLEAN : StartSource(c, opened)
    \/ \E c \in OneSource : StopSource(c)
    \/ StopSourceResume
    \/ \E c \in OneSource : StopTwice(c)
    \/ StopTwiceResume
    \/ \E c \in OneSource : RemoveSource(c)
    \/ RemoveSourceResumeDet
    \/ RemoveSourceResumeCap
    \/ StartPipeline
    \/ \E c \in OneSource, opened \in BOOLEAN : StartPipelineTask(c, opened)
    \/ StartPipelineReturn
    \/ StopPipeline
    \/ StopPipelineGathered
    \/ \E c \in OneSource : StopperRun(c)
    \/ StopPipelineReturn
    \/ \E i \in CapTasks, ok \in BOOLEAN : CaptureRun(i, ok)
    \/ \E i \in DetTasks : DetectRun(i, Still)

Init ==
    /\ InitState
    /\ lim = [ops |-> MaxOps, frames |-> MaxFrames, errors |-> MaxErrors]

Spec == Init /\ [][Next]_vars

\* A camera that fails: the caller adds, starts and stops one source, whose
\* reads fail often enough for the loop to reconnect.
InitReconnect ==
    /\ InitState
    /\ lim = [ops |-> ReconnectOps, frames |-> ReconnectFrames, errors |-> ReconnectErrors]

NextReconnect ==
    \/ \E c \in OneSource : AddSource(c, TRUE)
    \/ \E c \in OneSource, opened \in BOOLEAN : StartSource(c, opened)
    \/ \E c \in OneSource : StopSource(c)
    \/ StopSourceResume
    \/ \E c \in OneSource : StopTwice(c)
    \/ StopTwiceResume
    \/ \E i \in CapTasks, ok \in BOOLEAN : CaptureRun(i, ok)

SpecReconnect == InitReconnect /\ [][NextReconnect]_vars

\* A caller that starts a source, or the pipeline, only when nothing of the
\* source is on record as streaming, and removes and adds sources while the
\* pipeline runs.
Quiet == \A c \in Cameras : vp_tasks[c] = 0 /\ active_streams[c] = 0

StartStoppedSource(c) == Quiet /\ StartSource(c, TRUE)

StartStoppedPipeline == Quiet /\ StartPipeline

InitRemove ==
    /\ InitState
    /\ lim = [ops |-> RemoveOps, frames |-> RemoveFrames, errors |-> 0]

NextRemove ==
    \/ \E c \in OneSource : AddSource(c, TRUE)
    \/ \E c \in OneSource : StartStoppedSource(c)
    \/ \E c \in OneSource : RemoveSource(c)
    \/ RemoveSourceResumeDet
    \/ RemoveSourceResumeCap
    \/ StartStoppedPipeline
    \/ \E c \in OneSource : StartPipelineTask(c, TRUE)
    \/ StartPipelineReturn
    \/ \E i \in CapTasks : CaptureRun(i, TRUE)
    \/ \E i \in DetTasks : DetectRun(i, Still)

SpecRemove == InitRemove /\ [][NextRemove]_vars

\* The detectors at work: one source streams while the pipeline runs, and
\* every cycle of its detection task gets what the detectors find or raise.
Loud == [objects |-> <<90, 40>>, faces |-> <<HaarConfidence>>, motion |-> 50,
         sig |-> [reconstruction |-> 80, temporal |-> 100, attention |-> 100,
                  motion |-> 20],
         raise |-> "none"]

CycleInputs ==
    {Still, [Still EXCEPT !.motion = 50]} \cup {[Loud EXCEPT !.raise = r] : r \in Raises}

InitDetect ==
    /\ InitState
    /\ lim = [ops |-> DetectOps, frames |-> DetectFrames, errors |-> 0]

NextDetect ==
    \/ InitializeScorer(Models)
    \/ \E c \in OneSource : AddSource(c, TRUE)
    \/ StartStoppedPipeline
    \/ \E c \in OneSource : StartPipelineTask(c, TRUE)
    \/ StartPipelineReturn
    \/ StopPipeline
    \/ StopPipelineGathered
    \/ \E c \in OneSource : StopperRun(c)
    \/ StopPipelineReturn
    \/ \E i \in CapTasks : CaptureRun(i, TRUE)
    \/ \E i \in DetTasks, in \in CycleInputs : DetectRun(i, in)

SpecDetect == InitDetect /\ [][NextDetect]_vars

\* The fusion alone, on every combination of detector outputs.
Confidences == {40, 90}
ObjectLists == UNION {[1..n -> Confidences] : n \in 0..MaxObjects}
FaceLists == UNION {[1..n -> {HaarConfidence}] : n \in 0..MaxFaces}
AnomalyResults ==
    {[is_anomaly |-> a, confidence |-> x] : a \in BOOLEAN, x \in {60, 95}}
       \cup {[is_anomaly |-> FALSE, confidence |-> 0]}
MotionFractions == {0, MotionThreshold, 50, 95}

NextFusion ==
    \E od \in ObjectLists, ar \in AnomalyResults, fd \in FaceLists,
       history \in 1..2, motion_percentage \in MotionFractions :
        Fuse(od, ar, fd, history, motion_percentage)

SpecFusion == Init /\ [][NextFusion]_vars

\* The scorer alone: frames are scored while models load and the threshold
\* is updated.
Thresholds == {-10, 28, DefaultThreshold}
Signals ==
    [reconstruction : {0, 80}, temporal : {0, 100}, attention : {100}, motion : {0, 20}]

NextAnomaly ==
    \/ \E M \in LoadOutcomes : InitializeScorer(M)
    \/ \E new_threshold \in Thresholds : UpdateAnomalyThreshold(new_threshold)
    \/ \E c \in OneSource, sig \in Signals, failed \in BOOLEAN : ScoreFrame(c, sig, failed)

SpecAnomaly == Init /\ [][NextAnomaly]_vars

\* The scorer with two sources: the pipeline hands it the frames of both,
\* in any order, each with the camera_id of its source.
ScoredIds == {1, 2}

NextSources ==
    \/ InitializeScorer(Models)
    \/ \E new_threshold \in {28, DefaultThreshold} : UpdateAnomalyThreshold(new_threshold)
    \/ \E c \in ScoredIds : ScoreFrame(c, Loud.sig, FALSE)
    \/ SubmitFalsePositiveFeedback

SpecSources == Init /\ [][NextSources]_vars

\* The motion score of the scorer: frames enter the window one by one, and
\* the motion score is taken on the window with every fraction on either
\* side of the two bounds, and at them.
MotionPercentages ==
    {0, 5, VeryLowMotion - 1, VeryLowMotion, VeryLowMotion + 1, 100,
     ExcessiveMotion - 1, ExcessiveMotion, ExcessiveMotion + 1, 4000, 5000, 5001,
     7500, FullScore}

NextMotion ==
    \/ \E c \in OneSource : ScoreFrame(c, Loud.sig, FALSE)
    \/ \E f \in MotionPercentages, raises \in BOOLEAN : DetectMotionAnomaly(f, raises)

SpecMotion == Init /\ [][NextMotion]_vars

\* Two sources under one pipeline: every read of source 1 fails, so that
\* its loop reconnects, and the caller stops or removes source 1, while
\* source 2 streams and is detected on.
FailingSourceRun(i, ok) ==
    /\ ok \/ ctask[i].cam \in OneSource
    /\ CaptureRun(i, ok)
    /\ \A c \in OneSource : pushed'[c] = <<>>

InitIsolation ==
    /\ InitState
    /\ lim = [ops |-> IsolationOps, frames |-> IsolationFrames, errors |-> IsolationErrors]

NextIsolation ==
    \/ \E c \in Cameras : AddSource(c, TRUE)
    \/ StartStoppedPipeline
    \/ \E c \in Cameras : StartPipelineTask(c, TRUE)
    \/ StartPipelineReturn
    \/ \E c \in OneSource : StopSource(c)
    \/ StopSourceResume
    \/ \E c \in OneSource : RemoveSource(c)
    \/ RemoveSourceResumeCap
    \/ \E i \in CapTasks, ok \in BOOLEAN : FailingSourceRun(i, ok)
    \/ \E i \in DetTasks : DetectRun(i, Still)

SpecIsolation == InitIsolation /\ [][NextIsolation]_vars

\* ------------------------------------- the WebSocket client's calls
ClientStep(w) == ws' = ClientCollect(w) /\ UNCHANGED pipeline_vars

\* The caller calls connect: up to "await websockets.connect(...)".
ClientConnect ==
    /\ ws.call.op = "idle"
    /\ ClientStep([ws EXCEPT !.call = [op |-> "connect", pc |-> "connect", aw |-> 0],
                             !.disconnected = FALSE])

\* websockets.connect returns to the caller's connect, or to the connect of
\* the caller's send_message.
ClientConnectReturn(ok) ==
    /\ ws.call.pc = "connect"
    /\ ok => CanConnect(ws)
    /\ ClientStep([connect(ws, ok) EXCEPT !.call = NoClientCall])

\* The caller calls send_message.
ClientSend(sent) ==
    /\ ws.call.op = "idle"
    /\ IF ~ws.is_connected \/ ws.websocket = 0
       THEN /\ sent
            /\ ws.reconnect_attempts < lim.attempts
            /\ ClientStep([attempt_reconnect(ws) EXCEPT
                              !.call = [op |-> "send", pc |-> "connect", aw |-> 0],
                              !.disconnected = FALSE])
       ELSE /\ CanSend(ws, sent)
            /\ ClientStep(IF sent THEN [ws EXCEPT !.disconnected = FALSE]
                          ELSE [handle_connection_error(ws) EXCEPT !.disconnected = FALSE])

\* The caller calls disconnect.
ClientDisconnect ==
    /\ ws.call.op = "idle"
    /\ ClientStep(disconnect([ws EXCEPT !.disconnected = FALSE]))

\* disconnect resumes from the await of a task that has ended, or from
\* close().
ClientDisconnectResume ==
    \/ /\ ws.call.pc = "await_hb"
       /\ ws.hb[ws.call.aw].pc = "done"
       /\ ClientStep(DisconnectReconnect([ws EXCEPT !.call = NoClientCall]))
    \/ /\ ws.call.pc = "await_rc"
       /\ ws.rc[ws.call.aw].pc = "done"
       /\ ClientStep(DisconnectClose([ws EXCEPT !.call = NoClientCall]))
    \/ /\ ws.call.pc = "closing"
       /\ ClientStep(DisconnectReturn([ws EXCEPT !.websocket = 0]))

HeartbeatRun(i, ok) ==
    /\ HeartbeatEnabled(ws, i, ok)
    /\ ClientStep(heartbeat_loop(ws, i, ok))

MessageLoopRun(i, closed) ==
    /\ MessageLoopEnabled(ws, i, closed)
    /\ ClientStep(message_loop(ws, i, closed))

ReconnectRun(i, ok) ==
    /\ ReconnectEnabled(ws, i, ok)
    /\ ClientStep(reconnect_task(ws, i, ok))

NextSocket ==
    \/ ClientConnect
    \/ \E ok \in BOOLEAN : ClientConnectReturn(ok)
    \/ \E sent \in BOOLEAN : ClientSend(sent)
    \/ ClientDisconnect
    \/ ClientDisconnectResume
    \/ \E i \in Loops, ok \in BOOLEAN : HeartbeatRun(i, ok)
    \/ \E i \in Loops, closed \in BOOLEAN : MessageLoopRun(i, closed)
    \/ \E i \in Loops, ok \in BOOLEAN : ReconnectRun(i, ok)

\* The client with two tasks of a kind and two connections at a time.
InitSocket ==
    /\ InitState
    /\ lim = [ops |-> 0, frames |-> 0, errors |-> 0, attempts |-> SocketAttempts,
              loops |-> MaxLoops, sockets |-> MaxSockets]

SpecSocket == InitSocket /\ [][NextSocket]_vars

\* The client with one task of a kind and one connection at a time, and
\* room for the reconnect_attempts to pass max_reconnect_attempts.
InitAttempts ==
    /\ InitState
    /\ lim = [ops |-> 0, frames |-> 0, errors |-> 0, attempts |-> MaxAttempts,
              loops |-> AttemptsLoops, sockets |-> AttemptsSockets]

SpecAttempts == InitAttempts /\ [][NextSocket]_vars

\* ----------------------------------------------------------------- typing
TypeOK ==
    /\ ws.reconnect_attempts \in 0..MaxAttempts
    /\ false_positive_count \in 0..MaxFeedback
    /\ motion.score \in 0..FullScore
    /\ cameras \in [Cameras -> 0..MaxCfgs]
    /\ active_streams \in [Cameras -> 0..MaxCaps]
    /\ vp_tasks \in [Cameras -> 0..MaxCapTasks]
    /\ dp_tasks \in [Cameras -> 0..MaxDetTasks]
    /\ is_running \in BOOLEAN
    /\ \A k \in Cfgs : cfgs[k].frame_count <= lim.frames /\ cfgs[k].error_count <= lim.errors
    /\ \A c \in Cameras : Len(frame_callbacks[c].q) <= MaxCallbacks
    /\ threshold \in Thresholds
    /\ ad_buffer \in UNION {[1..n -> Cameras \cup ScoredIds] : n \in 0..AnomalyBufferSize}
    /\ ad_models \subseteq Models
    /\ scored.anomaly_score \in 0..100
    /\ \A i \in DetTasks : dtask[i].cycle.raise \in Raises
    /\ fused.out.risk_level \in {"low", "medium", "high"}

\* ------------------------------------------------------------- properties
LastOf(q, n) == SubSeq(q, Len(q) - n + 1, Len(q))

\* C1: a source's frame buffer never holds more than BufferSize frames, and
\* it holds the most recent ones of the frames pushed to it, in order.
BufferHoldsMostRecent ==
    \A c \in Cameras :
        frame_buffers[c].has =>
            /\ Len(frame_buffers[c].q) <= BufferSize
            /\ frame_buffers[c].q = LastOf(pushed[c], Min({Len(pushed[c]), BufferSize}))

\* more frames were pushed than the buffer holds
BufferEvicted ==
    \E c \in Cameras : frame_buffers[c].has /\ Len(pushed[c]) > BufferSize

\* C2: at most one capture loop of a source is alive at any time.
OneCaptureLoop ==
    \A c \in Cameras :
        Cardinality({i \in CapTasks : ctask[i].cam = c /\ ctask[i].pc \notin {"free", "done"}}) <= 1

\* C3: at most one detection task of a source is alive at any time.
OneDetectionTask ==
    \A c \in Cameras :
        Cardinality({i \in DetTasks : dtask[i].cam = c /\ dtask[i].pc \notin {"free", "done"}}) <= 1

\* C4: when RemoveSource on a registered source returns, it returns success
\* and the source has no configuration, no registry entry, no open handle, no
\* capture task and no detection task left.
RemoveSourceLeavesNothing ==
    [][(last' # last /\ last'.op = "remove" /\ cameras[last'.cam] # 0) =>
          /\ last'.ret
          /\ cameras'[last'.cam] = 0
          /\ vp_tasks'[last'.cam] = 0
          /\ dp_tasks'[last'.cam] = 0
          /\ active_streams'[last'.cam] = 0
          /\ \A i \in CapTasks : ctask'[i].cam = last'.cam => ctask'[i].pc \in {"free", "done"}
          /\ \A i \in DetTasks : dtask'[i].cam = last'.cam => dtask'[i].pc \in {"free", "done"}]_vars

LoopPcs == {"new", "sleep", "errsleep"}
ReconnectPcs == {"selfawait", "await", "cooldown"}

\* C5: a capture loop begins a reconnection in exactly the steps in which a
\* failed read raises the error count above 10: no reconnection up to 10, one
\* with the 11th consecutive failure.
ReconnectExactlyAboveTen ==
    [][(\E i \in CapTasks : ctask[i].pc \in LoopPcs /\ ctask'[i].pc \in ReconnectPcs)
          <=> (\E k \in Cfgs : /\ cfgs'[k].error_count = cfgs[k].error_count + 1
                               /\ cfgs'[k].error_count > 10)]_vars

\* the 11th consecutive failed read began a reconnection
ReconnectBegan ==
    \E i \in CapTasks :
        /\ ctask[i].pc \in ReconnectPcs
        /\ ctask[i].cfg # 0
        /\ cfgs[ctask[i].cfg].error_count = 11

\* C6: a capture loop whose reopen after the cool-down fails (nothing new is
\* put on record) terminates.
FailedReopenEndsLoop ==
    [][\A i \in CapTasks :
          (/\ ctask[i].pc = "cooldown" /\ ~ctask[i].cancel
           /\ ctask'[i].pc # "cooldown"
           /\ vp_tasks' = vp_tasks)
          => ctask'[i].pc \in {"free", "done"}]_vars

\* C7: AddSource with an id that is registered is rejected and changes
\* nothing.
AddExistingRejected ==
    [][(last' # last /\ last'.op = "add" /\ cameras[last'.cam] # 0) =>
          /\ ~last'.ret
          /\ UNCHANGED <<cameras, cfgs, frame_buffers, frame_callbacks>>]_vars

\* C8: of two calls of StopSource made one after the other, the second returns
\* success and leaves what the first left: the source stopped, with no task
\* and no handle on record.
StopTwiceAsOnce ==
    last.op = "stop2" =>
        /\ last.ret
        /\ last.obs = last.first.obs
        /\ last.obs = [task |-> FALSE, stream |-> FALSE]

\* the first of the two calls had a capture task to cancel and await
StoppedTwiceWhileStreaming ==
    last.op = "stop2" /\ last.first.waited

\* C9: when StopPipeline returns from stopping a running pipeline, no
\* detection task and no capture loop is alive.
StopPipelineLeavesNothingRunning ==
    [][(last' # last /\ last'.op = "stopp") =>
          /\ \A i \in CapTasks : ctask'[i].pc \in {"free", "done"}
          /\ \A i \in DetTasks : dtask'[i].pc \in {"free", "done"}]_vars

\* C10: in the step that reads a frame, the frame is buffered, every callback
\* of the source is invoked, in order, whichever of them raise, and the loop
\* goes on to its next sleep.
RaisingCallbackIsolated ==
    [][\A c \in Cameras :
          Len(pushed'[c]) > Len(pushed[c]) =>
              /\ cb_log'[c] = frame_callbacks'[c].q
              /\ frame_buffers'[c].has
              /\ get_latest_frame(State, c)' = pushed'[c][Len(pushed'[c])]
              /\ \E i \in CapTasks : ctask'[i].cam = c /\ ctask'[i].pc = "sleep"]_vars

\* a callback was invoked after a callback that raised
CallbackAfterRaiser ==
    \E c \in Cameras :
        /\ Len(cb_log[c]) >= 2
        /\ cb_log[c][1] = "raiser"
        /\ pushed[c] # <<>>

\* C11: a detection task that is running, has not been cancelled and whose
\* pipeline has not been stopped is still running after every step, whatever
\* a detector, the fusion or the sink raised in the cycle of that step: the
\* task ends only once the pipeline was stopped or the task was cancelled.
DetectionLoopSurvivesExceptions ==
    [][\A i \in DetTasks :
         (dtask[i].pc \notin {"free", "done"} /\ ~dtask[i].cancel /\ is_running)
            => dtask'[i].pc \notin {"free", "done"}]_vars

\* A task has completed a cycle after a cycle in which a call raised.
CycleAfterRaisingCycle ==
    \E i \in DetTasks :
        /\ dtask[i].cycle.prev \in Raises \ {"none"}
        /\ dtask[i].cycle.counted
        /\ dtask[i].pc = "interval"

\* C12: for every combination of detector outputs the fused result's
\* has_detection is true exactly when the object list is non-empty, or the
\* anomaly flag is set, or the face list is non-empty, or the motion flag is
\* set.
FusionRule ==
    fused.done =>
        (fused.out.has_detection <=>
            (\/ fused.od # <<>>
             \/ fused.ar.is_anomaly
             \/ fused.fd # <<>>
             \/ fused.ma.has_motion))

\* A frame in which only the motion flag is set has been fused.
FusedMotionOnly ==
    /\ fused.done
    /\ fused.od = <<>> /\ fused.fd = <<>> /\ ~fused.ar.is_anomaly
    /\ fused.ma.has_motion
    /\ fused.out.has_detection

\* C13: for every combination of detector outputs risk_level is "high"
\* exactly when the anomaly flag is set or there are more than 2 object
\* detections, "medium" exactly when it is not high and there is an object or
\* a face detection, and "low" otherwise, whatever the motion flag is.
RiskLevelRule ==
    LET high == fused.ar.is_anomaly \/ Len(fused.od) > 2
        some == Len(fused.od) >= 1 \/ Len(fused.fd) >= 1
    IN  fused.done =>
            /\ fused.out.risk_level = "high" <=> high
            /\ fused.out.risk_level = "medium" <=> (~high /\ some)
            /\ fused.out.risk_level = "low" <=> (~high /\ ~some)

\* Motion and a set anomaly flag without any object have been fused to high
\* risk.
FusedAnomalyHigh ==
    /\ fused.done
    /\ fused.ar.is_anomaly /\ fused.od = <<>> /\ fused.ma.has_motion
    /\ fused.out.risk_level = "high"

\* C14: overall_confidence is the greatest of the confidences that
\* contributed (every object's, every face's, the anomaly result's if its flag
\* is set, the motion fraction if the motion flag is set), and 0 when none
\* contributed.
OverallConfidenceIsMax ==
    LET contributing ==
            {fused.od[j] : j \in 1..Len(fused.od)}
            \cup {fused.fd[j] : j \in 1..Len(fused.fd)}
            \cup (IF fused.ar.is_anomaly THEN {fused.ar.confidence} ELSE {})
            \cup (IF fused.ma.has_motion THEN {fused.ma.motion_score} ELSE {})
    IN  fused.done =>
            IF contributing = {} THEN fused.out.overall_confidence = 0
            ELSE /\ fused.out.overall_confidence \in contributing
                 /\ \A x \in contributing : x <= fused.out.overall_confidence

\* Objects of confidence 0.9 and 0.4 have been fused with an anomaly result
\* of confidence 0.95 whose flag is not set, and nothing else: 0.9.
FusedTwoObjects ==
    /\ fused.done
    /\ fused.od = <<90, 40>> /\ fused.fd = <<>> /\ ~fused.ma.has_motion
    /\ ~fused.ar.is_anomaly /\ fused.ar.confidence = 95
    /\ fused.out.overall_confidence = 90

RenormalizedOverAvailable ==
    LET A == scored.available
    IN  (~scored.failed /\ A # {}) =>
            scored.anomaly_score * Sum([m \in A |-> weights[m]], A)
                = Sum([m \in A |-> scored.sig[m] * weights[m]], A)

\* C17: StartSource and RemoveSource with an id that is not registered
\* return failure and change nothing of any source.
UnregisteredIdRejected ==
    [][(/\ last' # last
        /\ last'.op \in {"start", "remove"}
        /\ call.op = "idle"
        /\ cameras[last'.cam] = 0) =>
          /\ ~last'.ret
          /\ UNCHANGED <<cameras, cfgs, active_streams, caps, frame_buffers,
                         frame_callbacks, vp_tasks, ctask, dp_tasks, dtask>>]_vars

\* C18: StartSource on a registered source that is disabled returns failure;
\* a StartSource on a registered source that returns failure, because the
\* source is disabled or its connection did not open, creates no task,
\* records no handle and leaves buffers and counters as they were; and one
\* that returns success has recorded an open handle and a task.
FailedStartChangesNothing ==
    [][(/\ last' # last
        /\ last'.op = "start"
        /\ cameras[last'.cam] # 0) =>
          /\ ~cfgs[cameras[last'.cam]].enabled => ~last'.ret
          /\ ~last'.ret =>
                UNCHANGED <<cameras, cfgs, active_streams, caps, frame_buffers,
                            frame_callbacks, vp_tasks, ctask, rq, pushed>>
          /\ last'.ret =>
                /\ active_streams'[last'.cam] # 0
                /\ caps'[active_streams'[last'.cam]] = "open"
                /\ vp_tasks'[last'.cam] # 0]_vars

\* StartSource has failed on a registered, enabled source that was stopped:
\* its connection did not open.
StartFailedToOpen ==
    /\ last.op = "start" /\ ~last.ret
    /\ cameras[last.cam] # 0
    /\ cfgs[cameras[last.cam]].enabled
    /\ ~last.obs.task /\ ~last.obs.stream
    /\ \A i \in CapTasks : ctask[i].pc = "free"
    /\ \A h \in Caps : caps[h] = "free"

\* C19: a cycle whose cache write or whose publish raised has completed and
\* left its task asleep in the loop; the result was written at most once and
\* published exactly once, whether or not the write failed.
SinkFailureIsolated ==
    \A i \in DetTasks :
        (dtask[i].cycle.redis = "failed" \/ dtask[i].cycle.kafka = "failed") =>
            /\ dtask[i].pc \in {"interval", "poll"}
            /\ dtask[i].cycle.counted
            /\ dtask[i].cycle.writes = 1
            /\ dtask[i].cycle.sends = 1

\* The cache write of a result raised, from the suspended setex, and the
\* result has been published.
PublishedAfterFailedWrite ==
    \E i \in DetTasks :
        /\ dtask[i].cycle.raise = "setex"
        /\ dtask[i].cycle.redis = "failed"
        /\ dtask[i].cycle.kafka = "sent"

\* C20: no capture loop that is still running holds a handle that has been
\* released.
ReleasedAfterLoopExit ==
    \A i \in CapTasks :
        (ctask[i].pc \notin {"free", "done"} /\ ctask[i].cap # 0)
            => caps[ctask[i].cap] # "released"

\* C21: once stop_camera_stream has returned for a source and no other call
\* has begun, no handle and no task is on record for the source (nothing has
\* reopened it) and no capture loop of the source is at a point where it
\* reads a frame.
StoppedStaysStopped ==
    \A c \in Cameras :
        (last.op \in {"stop", "stop2"} /\ last.cam = c /\ call = Idle)
            => /\ active_streams[c] = 0
               /\ vp_tasks[c] = 0
               /\ \A i \in CapTasks :
                      ctask[i].cam = c => ctask[i].pc \notin {"new", "sleep", "errsleep"}

\* C22: in the step that reads a frame, the callbacks registered for the
\* source are invoked once each, in registration order, every one of them
\* finds the new frame as the newest record of the buffer, and all of them
\* are over when the step ends at the loop's sleep, before its next read.
CallbacksAfterPushInOrder ==
    [][\A c \in Cameras :
          Len(pushed'[c]) > Len(pushed[c]) =>
              LET n == pushed'[c][Len(pushed'[c])]
                  registered == IF frame_callbacks[c].has THEN frame_callbacks[c].q ELSE <<>>
              IN  /\ cb_log'[c] = registered
                  /\ cb_seen'[c] = [j \in 1..Len(registered) |-> n]
                  /\ \A i \in CapTasks :
                         (ctask'[i] # ctask[i] /\ ctask'[i].cam = c)
                             => ctask'[i].pc = "sleep"]_vars

\* two callbacks were invoked for the second frame of a source
TwoCallbacksSawSecondFrame ==
    \E c \in Cameras :
        /\ Len(pushed[c]) >= 2
        /\ Len(cb_seen[c]) >= 2
        /\ cb_seen[c][2] = pushed[c][Len(pushed[c])]
        /\ cb_seen[c][2] >= 2

\* C23: the first read of a capture loop that has just been started, alone on
\* its source, leaves error_count at 1 if it fails and begins no reconnection,
\* and a read that succeeds leaves error_count at 0.
ErrorCountSinceRestart ==
    [][\A i \in CapTasks :
          LET c == ctask[i].cam
              alone == \A j \in CapTasks \ {i} :
                           ctask[j].cam = c => ctask[j].pc \in {"free", "done"}
          IN  /\ (ctask[i].pc = "new" /\ alone /\ ctask'[i].pc = "errsleep")
                     => cfgs'[ctask'[i].cfg].error_count = 1
              /\ (ctask[i].pc = "new" /\ alone)
                     => ctask'[i].pc \notin {"selfawait", "await", "cooldown"}
              /\ (ctask[i].pc # "sleep" /\ ctask'[i].pc = "sleep")
                     => cfgs'[ctask'[i].cfg].error_count = 0]_vars

\* C29: the frame_number values of the records of a source's buffer increase
\* strictly from the oldest record to the newest.
FrameNumbersIncrease ==
    \A c \in Cameras :
        frame_buffers[c].has =>
            \A j \in 1..(Len(frame_buffers[c].q) - 1) :
                frame_buffers[c].q[j] < frame_buffers[c].q[j + 1]

\* C24, for every cycle: whenever a detection task leaves a cycle that
\* reached the fusion, the result has gone to the sink exactly if it has a detection,
\* and the cycle has added 1 to total_detections and the number of the
\* result's object detections to total_objects.
CountersUpdatedEveryCycle ==
    [][\A i \in DetTasks :
          (\/ dtask[i].pc = "setex" /\ dtask'[i].pc # "setex"
           \/ dtask[i].pc \in {"new", "poll", "interval"} /\ dtask'[i].pc = "interval")
              => LET cy == dtask'[i].cycle
                 IN  /\ cy.writes = (IF cy.result.has_detection THEN 1 ELSE 0)
                     /\ cy.counted
                     /\ cy.stats.total_detections = 1
                     /\ cy.stats.total_objects = cy.result.objects]_vars

\* C24, for the cycles that are not cancelled: the same whenever the task
\* leaves a cycle without having been cancelled while the cycle waited for the
\* cache write.
CountersUpdatedUnlessCancelled ==
    [][\A i \in DetTasks :
          (\/ dtask[i].pc = "setex" /\ dtask'[i].pc # "setex" /\ ~dtask[i].cancel
           \/ dtask[i].pc \in {"new", "poll", "interval"} /\ dtask'[i].pc = "interval")
              => LET cy == dtask'[i].cycle
                 IN  /\ cy.writes = (IF cy.result.has_detection THEN 1 ELSE 0)
                     /\ cy.counted
                     /\ cy.stats.total_detections = 1
                     /\ cy.stats.total_objects = cy.result.objects]_vars

\* a cycle whose result has no detection was counted, with two objects that
\* the detector found
CountedWithoutDetection ==
    \E i \in DetTasks :
        /\ dtask[i].cycle.counted
        /\ dtask[i].cycle.raise = "fusion"
        /\ ~dtask[i].cycle.result.has_detection
        /\ dtask[i].cycle.writes = 0
        /\ dtask[i].cycle.stats = [NoStats EXCEPT !.total_detections = 1]

\* C25: a detection task comes into being only in a step in which a frame of
\* its source is read while is_running is true and the pipeline's callback
\* is registered for the source, and a detection task begins a pass of its
\* cycle (fetch, detection or poll) only while is_running is true.
DetectionOnlyWhileRunning ==
    [][\A i \in DetTasks :
          /\ (dtask[i].pc \in {"free", "done"} /\ dtask'[i].pc = "new")
                 => LET c == dtask'[i].cam
                    IN  /\ is_running
                        /\ frame_callbacks[c].has
                        /\ "pipeline" \in Range(frame_callbacks[c].q)
                        /\ Len(pushed'[c]) > Len(pushed[c])
                        /\ "pipeline" \in Range(cb_log'[c])
          /\ (/\ dtask[i].pc \in {"new", "poll", "interval"}
              /\ dtask'[i].pc \in {"poll", "interval", "setex"}
              /\ dtask'[i] # dtask[i]
              /\ dtask'[i].cancel = dtask[i].cancel)
                 => is_running]_vars

\* the pipeline's callback was invoked for a frame read after the pipeline
\* was stopped, and there is no detection task
CallbackWhileStopped ==
    \E c \in Cameras :
        /\ ~is_running
        /\ last.op = "start"
        /\ pushed[c] # <<>>
        /\ "pipeline" \in Range(cb_log[c])
        /\ \A i \in DetTasks : dtask[i].pc = "free"
        /\ \E i \in CapTasks : ctask[i].cam = c /\ ctask[i].pc = "sleep"

\* C30: in a step in which a detection task fetches, the frame of its new
\* cycle is the newest record the buffer holds before the step; with an
\* empty or missing buffer the task goes to its poll sleep and its cycle
\* record, counters included, stays as it was; and the buffer is the same
\* after the step.
CycleTakesNewestFrame ==
    [][\A i \in DetTasks :
          (/\ dtask[i].pc \in {"new", "poll", "interval"}
           /\ dtask'[i].pc \in {"poll", "interval", "setex"}
           /\ dtask'[i] # dtask[i]
           /\ dtask'[i].cancel = dtask[i].cancel)
              => LET b == frame_buffers[dtask[i].cam]
                 IN  /\ frame_buffers' = frame_buffers
                     /\ IF b.has /\ b.q # <<>>
                        THEN /\ dtask'[i].pc # "poll"
                             /\ dtask'[i].cycle.frame = b.q[Len(b.q)]
                        ELSE /\ dtask'[i].pc = "poll"
                             /\ dtask'[i].cycle = dtask[i].cycle]_vars

\* a cycle has processed the newest of two buffered frames
CycleOnNewestOfTwo ==
    \E i \in DetTasks :
        LET b == frame_buffers[dtask[i].cam]
        IN  /\ dtask[i].pc = "interval"
            /\ dtask[i].cycle.counted
            /\ b.has /\ Len(b.q) = 2
            /\ dtask[i].cycle.frame = b.q[2]
            /\ b.q[1] < b.q[2]

\* C26: the signals of an assessment are computed from frames of the scored
\* source only: when the motion signal is computed, the frame before the
\* scored one in the scorer's deque is of the same source, and when the
\* temporal signal is computed, so are the last TemporalWindow frames.
AnomalyStatePerSource ==
    LET n == Len(ad_buffer)
    IN  (~scored.failed /\ scored.camera_id # 0) =>
            /\ "motion" \in scored.available
                   => \A j \in (n - MotionWindow + 1)..n : ad_buffer[j] = scored.camera_id
            /\ "temporal" \in scored.available
                   => \A j \in (n - TemporalWindow + 1)..n : ad_buffer[j] = scored.camera_id

\* C27: when remove_camera of the pipeline has returned True for an id, the
\* scorer's deque holds no frame of that id.
RemoveSourceClearsScorer ==
    [][(last' # last /\ last'.op = "remove" /\ last'.ret)
          => \A j \in 1..Len(ad_buffer') : ad_buffer'[j] # last'.cam]_vars

\* What the video processor and the pipeline hold of one source: its
\* configuration with the counters, buffer, callbacks, handle and the
\* handle's state, the tasks on record and the tasks alive.
SourceState(c) ==
    [config |-> IF cameras[c] = 0 THEN NoCfg ELSE cfgs[cameras[c]],
     registered |-> cameras[c] # 0,
     buffer |-> frame_buffers[c],
     callbacks |-> frame_callbacks[c],
     handle |-> active_streams[c],
     handle_state |-> IF active_streams[c] = 0 THEN "none" ELSE caps[active_streams[c]],
     task |-> vp_tasks[c],
     detection |-> dp_tasks[c],
     loops |-> {<<i, ctask[i]>> : i \in {j \in CapTasks : ctask[j].cam = c /\ CapLive(State, j)}},
     detections |-> {<<i, dtask[i]>> : i \in {j \in DetTasks : dtask[j].cam = c /\ DetLive(State, j)}}]

\* C28: a step that changes what is held of source a, or in which a call on
\* source a returns, changes nothing of what is held of another source b
\* (steps of start_processing, which acts on all sources, aside).
SourcesIsolated ==
    [][(call.op # "startp" /\ call'.op # "startp") =>
          \A a \in Cameras : \A b \in Cameras \ {a} :
              (\/ SourceState(a)' # SourceState(a)
               \/ last' # last /\ last'.cam = a)
                  => SourceState(b)' = SourceState(b)]_vars

\* source 1 has gone through a reconnection and has been stopped or removed
\* while source 2 streams and a detection cycle of it has completed
StreamsBesideFailedSource ==
    /\ last.cam = 1 /\ last.op \in {"stop", "remove"}
    /\ \E k \in Cfgs : cfgs[k].error_count > ErrorThreshold
    /\ active_streams[2] # 0 /\ caps[active_streams[2]] = "open"
    /\ frame_buffers[2].q # <<>>
    /\ \E i \in CapTasks : ctask[i].cam = 2 /\ ctask[i].pc = "sleep" /\ vp_tasks[2] = i
    /\ \E i \in DetTasks : dtask[i].cam = 2 /\ dtask[i].cycle.counted /\ dp_tasks[2] = i

\* C31: a false-positive report changes nothing but the false-positive
\* counter, which it raises by exactly 1: the threshold, the frame window, the
\* loaded models and the last score stay as they were, and the score a frame
\* would get next is the one it would get had no report ever been made.
FeedbackOnlyCounts ==
    /\ [][false_positive_count' # false_positive_count =>
            /\ false_positive_count' = false_positive_count + 1
            /\ UNCHANGED <<threshold, ad_buffer, ad_models, scored>>]_vars
    /\ [](\A c \in ScoredIds :
            LET unreported == [State EXCEPT !.false_positive_count = 0]
                with == detect_anomaly(State, c, Loud.sig, FALSE)
                without == detect_anomaly(unreported, c, Loud.sig, FALSE)
            IN  /\ with.scored = without.scored
                /\ with.ad_buffer = without.ad_buffer)

\* Two reports have been made beside a full frame window and a changed
\* threshold.
FeedbackBesideScoring ==
    /\ false_positive_count = MaxFeedback
    /\ Len(ad_buffer) = AnomalyBufferSize
    /\ threshold = 28
    /\ ~scored.failed /\ scored.frames = AnomalyBufferSize

AnomaliesCountAnomalousCycles ==
    \A i \in DetTasks :
        LET cy == dtask[i].cycle
        IN  cy.counted =>
                /\ cy.stats.total_anomalies =
                       (IF "anomaly" \in Range(cy.result.detection_types) THEN 1 ELSE 0)
                /\ cy.stats.total_anomalies <= cy.stats.total_detections

\* C34: the pipeline's frame callback is at most once in the callback list
\* of every source, whatever calls of StartPipeline, StopPipeline and
\* AddSource were made, and no frame has it invoked more than once.
PipelineCallbackOnce ==
    \A c \in Cameras :
        /\ Cardinality({j \in 1..Len(frame_callbacks[c].q) :
                            frame_callbacks[c].q[j] = "pipeline"}) <= 1
        /\ Cardinality({j \in 1..Len(cb_log[c]) : cb_log[c][j] = "pipeline"}) <= 1

\* C35: between the caller's calls a registered source has an entry in
\* active_streams (GetSourceStatus reports is_streaming) exactly when a
\* capture loop of the source is running, which is exactly when
\* processing_tasks holds a capture task for it that has not finished.
StreamingIffCaptureLoop ==
    \A c \in Cameras :
        (call.op = "idle" /\ cameras[c] # 0) =>
            LET is_streaming == active_streams[c] # 0
                looping == \E i \in CapTasks : ctask[i].cam = c /\ CapLive(State, i)
                on_record == vp_tasks[c] # 0 /\ CapLive(State, vp_tasks[c])
            IN  /\ is_streaming <=> looping
                /\ is_streaming <=> on_record

\* C36: between the caller's calls every id in the pipeline's
\* processing_tasks (counted in active_cameras) has a detection task that has
\* not finished, also after StopPipeline has returned and when the task was
\* cancelled before its first step.
NoStaleDetectionTask ==
    \A c \in Cameras :
        (call.op = "idle" /\ dp_tasks[c] # 0) => DetLive(State, dp_tasks[c])

\* C37: in every result the fusion built without error, detection_types is
\* non-empty exactly when has_detection is true, and it holds "object",
\* "anomaly", "face" and "motion" exactly for the signals that fired (objects
\* found, anomaly flag, faces found, motion flag), each at most once and
\* nothing else.
DetectionTypesRule ==
    LET types == fused.out.detection_types
    IN  (fused.done /\ ~fused.out.error) =>
            /\ types # <<>> <=> fused.out.has_detection
            /\ "object" \in Range(types) <=> Len(fused.od) > 0
            /\ "anomaly" \in Range(types) <=> fused.ar.is_anomaly
            /\ "face" \in Range(types) <=> Len(fused.fd) > 0
            /\ "motion" \in Range(types) <=> fused.ma.has_motion
            /\ Range(types) \subseteq {"object", "anomaly", "face", "motion"}
            /\ Len(types) = Cardinality(Range(types))

\* Three objects, the anomaly flag, a face and motion have been fused into
\* the four types.
FusedAllFourTypes ==
    /\ fused.done /\ ~fused.out.error
    /\ Len(fused.od) = MaxObjects /\ fused.ar.is_anomaly
    /\ Len(fused.fd) > 0 /\ fused.ma.has_motion
    /\ fused.out.detection_types = <<"object", "anomaly", "face", "motion">>

\* C38: every fused result of a detection cycle whose risk_level is "medium"
\* or "high" has has_detection true and was handed to the Result Sink in
\* that cycle.
RiskyResultsReachSink ==
    \A i \in DetTasks :
        LET cy == dtask[i].cycle
        IN  cy.result.risk_level \in {"medium", "high"} =>
                /\ cy.result.has_detection
                /\ cy.writes = 1

\* A result of medium risk that rests on a face alone has been stored by
\* the sink, and its cycle has ended.
FaceOnlyResultStored ==
    \E i \in DetTasks :
        /\ dtask[i].cycle.result.risk_level = "medium"
        /\ dtask[i].cycle.result.detection_types = <<"face">>
        /\ dtask[i].cycle.redis = "stored"
        /\ dtask[i].cycle.counted

\* C39: reconnect_attempts never exceeds max_reconnect_attempts, whatever
\* send_message calls, connection errors and failed connects there are
\* between two successful connections.
AttemptsWithinMax == ws.reconnect_attempts <= max_reconnect_attempts

\* C40: the client has at most one heartbeat loop and at most one message
\* loop that have not finished, and once disconnect has returned, and until
\* the caller's next call, the client is not connected and has no loop.
ClientLoopsSingle ==
    /\ Cardinality(LiveLoops(ws.hb)) <= 1
    /\ Cardinality(LiveLoops(ws.ml)) <= 1
    /\ ws.disconnected =>
           /\ ~ws.is_connected
           /\ LiveLoops(ws.hb) = {} /\ LiveLoops(ws.ml) = {}
====
